---- MODULE Spec2Model ----
(***************************************************************************)
(* The filesystem overlay of crux (fs patch, overrideNode) over a real     *)
(* POSIX filesystem, a package map and a content-addressed blob store.     *)
(* Paths are sequences of segments; file contents are sequences of bytes.  *)
(***************************************************************************)
EXTENDS Integers, Sequences, FiniteSets, TLC

\* ------------------------------------------------------------------ bounds
\* Direct mutations of the real filesystem (user code calling unpatched
\* primitives) allowed in one behaviour.
MaxEnvSteps == 2

\* Edits of the lockfiles and the persisted seal by a user in one behaviour.
MaxEdits == 2

\* ------------------------------------------------------- program constants
MODE_755 == 493          \* 0o755, the mode set on a materialised file
MODE_700 == 448          \* 0o700, a mode a caller hands to chmod
F_OK == 0
X_OK == 1
W_OK == 2
R_OK == 4

\* ------------------------------------------------------------------ paths
NM == "node_modules"
Prefix == <<"w">>
DepRoot == <<"w", NM>>
P_out == <<"w", "f">>
P_outx == <<"w", "f", "x">>
P_a == <<"w", NM, "a">>
P_i == <<"w", NM, "a", "i.js">>
P_m == <<"w", NM, "a", "m.js">>
P_anm == <<"w", NM, "a", NM>>
P_z == <<"w", NM, "z">>
P_znm == <<"w", NM, "z", NM>>

\* the paths of the project
Paths == {Prefix, P_out, P_outx, DepRoot, P_a, P_i, P_m, P_anm, P_z, P_znm}

\* the paths the model calls the overlay on: an untracked file and a path
\* below it, a map directory, a map file and a path missing from the map
CallPaths == {P_out, P_outx, P_a, P_i, P_m}

\* the paths the module loader probes besides: a node_modules directory the
\* map does not hold, below a package of the map and below a name it lacks
ProbePaths == CallPaths \cup {P_anm, P_znm}

Parent(p) == SubSeq(p, 1, Len(p) - 1)
Basename(p) == p[Len(p)]

\* the names in listing order (the order the host enumerates a directory in)
NameOrder == <<"a", "f", "i.js", "m.js", NM, "w", "x", "z">>

\* ------------------------------------------------------------- blob store
\* The blobs are files of the real filesystem, under the cache root.
Digests == {"d1"}
BlobBytes == <<1, 2>>
UserBytes == <<3>>
CacheRoot == <<"cache">>
CachePath(d) == <<"cache", d>>
AllPaths == Paths \cup {CacheRoot} \cup {CachePath(d) : d \in Digests}

\* ------------------------------------------------------- real filesystem
None == [kind |-> "none", data |-> <<>>, mode |-> 0]
FileEnt(d, m) == [kind |-> "file", data |-> d, mode |-> m]
DirEnt(m) == [kind |-> "dir", data |-> <<>>, mode |-> m]

VARIABLES
    realFS,     \* the real filesystem (project and blob cache): path -> entry
    pkgmap,     \* the package map: path relative to the dependency root -> entry
    nenv,       \* direct mutations of the real filesystem so far
    before,     \* the real filesystem when the call in last started
    last,       \* the overlay call whose result the caller holds, or NoCall
    pfiles,      \* package-lock.json, npm-shrinkwrap.json and node_modules/.pkglock-hash
    inst,       \* the Installer object of the run in progress and its stage
    tree,       \* the logical dependency tree of the run: node -> attributes
    walk,       \* how far fetchTree and updateJson have walked the tree
    hist,       \* what the last prepare command and the last run did
    pkgjson     \* a dependency's package.json and what updateInstallScript did to it

ovars == <<realFS, pkgmap, nenv, before, last>>
ivars == <<pfiles, inst, tree, walk, hist>>
vars == <<realFS, pkgmap, nenv, before, last, pfiles, inst, tree, walk, hist, pkgjson>>

\* ------------------------------------------------------------ results
Errno(c) ==
    CASE c = "ENOENT" -> -2
      [] c = "ENOTDIR" -> -20
      [] c = "EISDIR" -> -21
      [] c = "EACCES" -> -13
      [] OTHER -> -1

\* the values a call delivers, each a record of its own shape: undefined,
\* a Buffer, a path string, an array of names, a boolean, a number
Undefined == [undefined |-> TRUE]
Bytes(b) == [bytes |-> b]
PathVal(p) == [path |-> p]
Names(l) == [names |-> l]
Bool(b) == [bool |-> b]
Num(n) == [num |-> n]

Ok(v) == [out |-> "ok", val |-> v, code |-> "", errno |-> 0]
Err(c) == [out |-> "err", val |-> Undefined, code |-> c, errno |-> Errno(c)]

\* one delivery of a result to the caller: by return, throw, callback,
\* or a stream event
Dlv(via, r) == [via |-> via, out |-> r.out, val |-> r.val, code |-> r.code, errno |-> r.errno]

\* what a wrapper did: the filesystem it left and its deliveries in order
Did(F, ds) == [fs |-> F, dl |-> ds]

\* ------------------------------------------------ host primitives (node fs)
HasBit(m, b) == (m \div b) % 2 = 1

\* The error of walking to p's parent directory, "" when it is a directory.
RECURSIVE LookupErr(_, _)
LookupErr(F, p) ==
    IF Len(p) <= 1 THEN ""
    ELSE LET q == Parent(p) IN
         IF F[q].kind = "dir" THEN ""
         ELSE IF F[q].kind = "file" THEN "ENOTDIR"
         ELSE IF LookupErr(F, q) # "" THEN LookupErr(F, q)
         ELSE "ENOENT"

\* The error of reaching p itself, "" when p exists.
PathErr(F, p) ==
    IF LookupErr(F, p) # "" THEN LookupErr(F, p)
    ELSE IF F[p].kind = "none" THEN "ENOENT"
    ELSE ""

RealStat(F, p) ==
    [kind |-> F[p].kind, size |-> Len(F[p].data), mode |-> F[p].mode,
     ino |-> <<"real">> \o p]

HostStat(F, p) ==
    IF PathErr(F, p) # "" THEN Err(PathErr(F, p)) ELSE Ok(RealStat(F, p))

HostRealpath(F, p) ==
    IF PathErr(F, p) # "" THEN Err(PathErr(F, p)) ELSE Ok(PathVal(p))

HostExists(F, p) == PathErr(F, p) = ""

\* access(2) against the owner's permission bits
HostAccess(F, p, mode) ==
    IF PathErr(F, p) # "" THEN Err(PathErr(F, p))
    ELSE IF \/ (HasBit(mode, R_OK) /\ ~HasBit(F[p].mode, 256))
            \/ (HasBit(mode, W_OK) /\ ~HasBit(F[p].mode, 128))
            \/ (HasBit(mode, X_OK) /\ ~HasBit(F[p].mode, 64))
         THEN Err("EACCES")
    ELSE Ok(Undefined)

HostReadFile(F, p) ==
    IF PathErr(F, p) # "" THEN Err(PathErr(F, p))
    ELSE IF F[p].kind = "dir" THEN Err("EISDIR")
    ELSE Ok(Bytes(F[p].data))

Listing(F, p) ==
    SelectSeq(NameOrder,
              LAMBDA n : (p \o <<n>>) \in DOMAIN F /\ F[p \o <<n>>].kind # "none")

HostReaddir(F, p) ==
    IF PathErr(F, p) # "" THEN Err(PathErr(F, p))
    ELSE IF F[p].kind # "dir" THEN Err("ENOTDIR")
    ELSE Ok(Names(Listing(F, p)))

\* mode & ~0o022
Umasked(mode) ==
    mode - (IF HasBit(mode, 16) THEN 16 ELSE 0) - (IF HasBit(mode, 2) THEN 2 ELSE 0)

\* the mode of a file the host creates with its default 0o666, which is also
\* the mode of the blobs in the cache and of the file entries of the map
MODE_644 == Umasked(438)

\* open flags
ReadOnlyFlags == {"r", "rs"}
CreatingFlags == {"w", "a"}
TruncatingFlags == {"w"}
Flags == {"r", "rs", "r+", "w", "a"}

Fd(p) == [fd |-> p]

\* open(2): [fs, ret]
HostOpen(F, p, flags) ==
    IF LookupErr(F, p) # "" THEN [fs |-> F, ret |-> Err(LookupErr(F, p))]
    ELSE IF F[p].kind = "dir"
         THEN [fs |-> F,
               ret |-> IF flags \in ReadOnlyFlags THEN Ok(Fd(p)) ELSE Err("EISDIR")]
    ELSE IF F[p].kind = "file"
         THEN [fs |-> IF flags \in TruncatingFlags
                      THEN [F EXCEPT ![p].data = <<>>] ELSE F,
               ret |-> Ok(Fd(p))]
    ELSE IF flags \in CreatingFlags
         THEN [fs |-> [F EXCEPT ![p] = FileEnt(<<>>, MODE_644)], ret |-> Ok(Fd(p))]
    ELSE [fs |-> F, ret |-> Err("ENOENT")]

\* copyFile(src, dst): the destination takes the source's bytes; a created
\* destination takes the source's mode, an existing one keeps its own
HostCopyFile(F, src, dst) ==
    IF PathErr(F, src) # "" THEN [fs |-> F, ret |-> Err(PathErr(F, src))]
    ELSE IF F[src].kind = "dir" THEN [fs |-> F, ret |-> Err("EISDIR")]
    ELSE IF LookupErr(F, dst) # "" THEN [fs |-> F, ret |-> Err(LookupErr(F, dst))]
    ELSE IF F[dst].kind = "dir" THEN [fs |-> F, ret |-> Err("EISDIR")]
    ELSE [fs |-> [F EXCEPT ![dst] =
                     FileEnt(F[src].data,
                             IF F[dst].kind = "file" THEN F[dst].mode ELSE F[src].mode)],
          ret |-> Ok(Undefined)]

HostChmod(F, p, mode) ==
    IF PathErr(F, p) # "" THEN [fs |-> F, ret |-> Err(PathErr(F, p))]
    ELSE [fs |-> [F EXCEPT ![p].mode = mode], ret |-> Ok(Undefined)]

\* writeFile(p, data, {mode}): the mode applies to a file it creates only
HostWriteFile(F, p, data, mode) ==
    IF LookupErr(F, p) # "" THEN [fs |-> F, ret |-> Err(LookupErr(F, p))]
    ELSE IF F[p].kind = "dir" THEN [fs |-> F, ret |-> Err("EISDIR")]
    ELSE [fs |-> [F EXCEPT ![p] =
                     FileEnt(data,
                             IF F[p].kind = "file" THEN F[p].mode ELSE Umasked(mode))],
          ret |-> Ok(Undefined)]

\* mkdirp(p, {mode}): p and its missing ancestors become directories
RECURSIVE HostMkdirp(_, _, _)
HostMkdirp(F, p, mode) ==
    IF Len(p) = 0 \/ F[p].kind = "dir" THEN [fs |-> F, ret |-> Ok(Undefined)]
    ELSE IF F[p].kind = "file" THEN [fs |-> F, ret |-> Err("EEXIST")]
    ELSE LET up == HostMkdirp(F, Parent(p), mode) IN
         IF up.ret.out = "err"
         THEN [fs |-> up.fs,
               ret |-> IF up.ret.code = "EEXIST" THEN Err("ENOTDIR") ELSE up.ret]
         ELSE [fs |-> [up.fs EXCEPT ![p] = DirEnt(Umasked(mode))], ret |-> Ok(Undefined)]

\* the module loader's probes
HostInternalModuleStat(F, p) ==
    IF PathErr(F, p) # "" THEN Errno(PathErr(F, p))
    ELSE IF F[p].kind = "dir" THEN 1 ELSE 0

HostInternalModuleReadJSON(F, p) ==
    IF PathErr(F, p) = "" /\ F[p].kind = "file" THEN Ok(Bytes(F[p].data)) ELSE Ok(Undefined)

\* --------------------------------------- pkglock: resolver, stat and read
IsUnderDepRoot(p) ==
    Len(p) >= Len(DepRoot) /\ SubSeq(p, 1, Len(DepRoot)) = DepRoot

RelPath(p) == SubSeq(p, Len(DepRoot) + 1, Len(p))

\* the names of a map directory's children, as Object.keys lists them
DirKeys(M, rel) ==
    SelectSeq(NameOrder, LAMBDA n : (rel \o <<n>>) \in DOMAIN M)

Untracked == [kind |-> "untracked"]
Missing == [kind |-> "missing"]

\* resolve(p): null (Untracked), false (Missing), or a Dir or File resolution
resolve(M, p) ==
    IF ~IsUnderDepRoot(p) THEN Untracked
    ELSE LET rel == RelPath(p) IN
         IF rel \in DOMAIN M
         THEN IF M[rel].kind = "dir"
              THEN [kind |-> "dir", dir |-> DirKeys(M, rel), resolvedPath |-> p]
              ELSE [kind |-> "file", digest |-> M[rel].digest, size |-> M[rel].size,
                    mode |-> M[rel].mode, resolvedPath |-> CachePath(M[rel].digest)]
         ELSE IF /\ Len(rel) >= 1
                 /\ Basename(p) = NM
                 /\ Parent(rel) \in DOMAIN M
                 /\ M[Parent(rel)].kind = "dir"
              THEN [kind |-> "dir", dir |-> <<>>, resolvedPath |-> p]
         ELSE Missing

\* JavaScript's view of a resolution
IsNull(r) == r.kind = "untracked"
Falsy(r) == r.kind \in {"untracked", "missing"}
IsDir(r) == r.kind = "dir"
IsFile(r) == r.kind = "file"

Null == [out |-> "null", val |-> Undefined, code |-> "", errno |-> 0]

BlobPresent(F, d) == PathErr(F, CachePath(d)) = "" /\ F[CachePath(d)].kind = "file"

\* stat(resolution, verify): the record of the map entry, or nothing when
\* verify is set and the blob is not in the store
pkglock_stat(F, r, verify) ==
    IF IsDir(r)
    THEN Ok([kind |-> "dir", size |-> 0, mode |-> MODE_755, ino |-> <<"map">> \o r.resolvedPath])
    ELSE IF verify /\ ~BlobPresent(F, r.digest) THEN Null
    ELSE Ok([kind |-> "file", size |-> r.size, mode |-> r.mode, ino |-> <<"map", r.digest>>])

\* read(resolution): the blob's bytes
pkglock_read(F, r) ==
    IF IsDir(r) THEN Err("EISDIR")
    ELSE IF Falsy(r) \/ ~BlobPresent(F, r.digest) THEN Err("ENOENT")
    ELSE Ok(Bytes(F[CachePath(r.digest)].data))

\* ------------------------------------------------------- error builders
\* each throws when it is given no callback, else calls back on the next tick
notFoundError(hasCb) == Dlv(IF hasCb THEN "cb" ELSE "throw", Err("ENOENT"))
notDirError(hasCb) == Dlv(IF hasCb THEN "cb" ELSE "throw", Err("ENOTDIR"))
isDirError(hasCb) == Dlv(IF hasCb THEN "cb" ELSE "throw", Err("EISDIR"))
accessError(hasCb) == Dlv(IF hasCb THEN "cb" ELSE "throw", Err("EACCES"))

\* ------------------------------------------------- the overlay's wrappers
\* Each takes the real filesystem F it runs on and the package map M.
lstatSync(F, M, p) ==
    LET h == HostStat(F, p) IN
    IF h.out = "ok" THEN Did(F, <<Dlv("return", h)>>)
    ELSE IF h.code # "ENOENT" THEN Did(F, <<Dlv("throw", h)>>)
    ELSE LET resolved == resolve(M, p) IN
         IF Falsy(resolved) THEN Did(F, <<notFoundError(FALSE)>>)
         ELSE LET stats == pkglock_stat(F, resolved, FALSE) IN
              IF stats.out = "null" THEN Did(F, <<notFoundError(FALSE)>>)
              ELSE Did(F, <<Dlv("return", stats)>>)

lstat(F, M, p) ==
    LET h == HostStat(F, p) IN
    IF h.out = "ok" THEN Did(F, <<Dlv("cb", h)>>)
    ELSE LET resolved == resolve(M, p) IN
         IF Falsy(resolved) THEN Did(F, <<notFoundError(TRUE)>>)
         ELSE LET st == pkglock_stat(F, resolved, FALSE) IN
              IF st.out = "null"
              THEN Did(F, <<Dlv("cb", Ok(Undefined)), notFoundError(TRUE)>>)
              ELSE Did(F, <<Dlv("cb", st)>>)

statSync(F, M, p) ==
    LET h == HostStat(F, p) IN
    IF h.out = "ok" THEN Did(F, <<Dlv("return", h)>>)
    ELSE IF h.code # "ENOENT" THEN Did(F, <<Dlv("throw", h)>>)
    ELSE LET resolved == resolve(M, p) IN
         IF Falsy(resolved) THEN Did(F, <<notFoundError(FALSE)>>)
         ELSE LET stats == pkglock_stat(F, resolved, FALSE) IN
              IF stats.out = "null" THEN Did(F, <<notFoundError(FALSE)>>)
              ELSE Did(F, <<Dlv("return", stats)>>)

stat(F, M, p) ==
    LET h == HostStat(F, p) IN
    IF h.out = "ok" THEN Did(F, <<Dlv("cb", h)>>)
    ELSE LET resolved == resolve(M, p) IN
         IF Falsy(resolved) THEN Did(F, <<notFoundError(TRUE)>>)
         ELSE LET st == pkglock_stat(F, resolved, FALSE) IN
              IF st.out = "null"
              THEN Did(F, <<Dlv("cb", Ok(Undefined)), notFoundError(TRUE)>>)
              ELSE Did(F, <<Dlv("cb", st)>>)

\* returns the record, or false
statSyncNoException(F, M, p) ==
    LET h == HostStat(F, p) IN
    IF h.out = "ok" THEN Did(F, <<Dlv("return", h)>>)
    ELSE LET resolved == resolve(M, p) IN
         IF Falsy(resolved) THEN Did(F, <<Dlv("return", Null)>>)
         ELSE LET stats == pkglock_stat(F, resolved, FALSE) IN
              Did(F, <<Dlv("return", stats)>>)

realpathSync(F, M, p) ==
    LET h == HostRealpath(F, p) IN
    IF h.out = "ok" THEN Did(F, <<Dlv("return", h)>>)
    ELSE IF h.code # "ENOENT" THEN Did(F, <<Dlv("throw", h)>>)
    ELSE LET resolved == resolve(M, p) IN
         IF Falsy(resolved) THEN Did(F, <<notFoundError(FALSE)>>)
         ELSE Did(F, <<Dlv("return", Ok(PathVal(resolved.resolvedPath)))>>)

\* called as realpath(p, cache, cb)
realpath(F, M, p) ==
    LET h == HostRealpath(F, p) IN
    IF h.out = "err" /\ h.code # "ENOENT" THEN Did(F, <<Dlv("cb", h)>>)
    ELSE IF h.out = "ok" THEN Did(F, <<Dlv("cb", h)>>)
    ELSE LET resolved == resolve(M, p) IN
         IF ~Falsy(resolved) THEN Did(F, <<Dlv("cb", Ok(PathVal(resolved.resolvedPath)))>>)
         ELSE Did(F, <<notFoundError(TRUE)>>)

\* The host calls back with the boolean as its first argument, the wrapper
\* with null first and the boolean second.
exists(F, M, p) ==
    LET resolved == resolve(M, p) IN
    IF IsNull(resolved)
    THEN Did(F, <<Dlv("cb", Ok([pos |-> 1, value |-> HostExists(F, p)]))>>)
    ELSE Did(F, <<Dlv("cb", Ok([pos |-> 2, value |-> ~Falsy(resolved)]))>>)

existsPromise(F, M, p) ==
    LET resolved == resolve(M, p) IN
    IF IsNull(resolved) THEN Did(F, <<Dlv("resolve", Ok(Bool(HostExists(F, p))))>>)
    ELSE Did(F, <<Dlv("resolve", Ok(Bool(~Falsy(resolved))))>>)

existsSync(F, M, p) ==
    LET resolved == resolve(M, p) IN
    IF IsNull(resolved) THEN Did(F, <<Dlv("return", Ok(Bool(HostExists(F, p))))>>)
    ELSE Did(F, <<Dlv("return", Ok(Bool(~Falsy(resolved))))>>)

DirAccessGranted(mode) == mode = F_OK \/ HasBit(mode, R_OK)

access(F, M, p, mode) ==
    LET resolved == resolve(M, p) IN
    IF IsNull(resolved) THEN Did(F, <<Dlv("cb", HostAccess(F, p, mode))>>)
    ELSE IF Falsy(resolved) THEN Did(F, <<notFoundError(TRUE)>>)
    ELSE IF IsDir(resolved)
         THEN IF DirAccessGranted(mode) THEN Did(F, <<Dlv("cb", Ok(Undefined))>>)
              ELSE Did(F, <<accessError(TRUE)>>)
    ELSE LET st == pkglock_stat(F, resolved, FALSE) IN
         IF st.out = "null" THEN Did(F, <<notFoundError(TRUE)>>)
         ELSE Did(F, <<Dlv("cb", HostAccess(F, CachePath(resolved.digest), mode))>>)

\* For a File the wrapper calls fs.accessSync, which is this wrapper again,
\* on the cache path.
RECURSIVE accessSync(_, _, _, _)
accessSync(F, M, p, mode) ==
    LET resolved == resolve(M, p) IN
    IF IsNull(resolved)
    THEN LET h == HostAccess(F, p, mode) IN
         Did(F, <<Dlv(IF h.out = "ok" THEN "return" ELSE "throw", h)>>)
    ELSE IF Falsy(resolved) THEN Did(F, <<notFoundError(FALSE)>>)
    ELSE IF IsDir(resolved)
         THEN IF DirAccessGranted(mode) THEN Did(F, <<Dlv("return", Ok(Undefined))>>)
              ELSE Did(F, <<accessError(FALSE)>>)
    ELSE LET st == pkglock_stat(F, resolved, FALSE) IN
         IF st.out = "null" THEN Did(F, <<notFoundError(FALSE)>>)
         ELSE accessSync(F, M, CachePath(resolved.digest), mode)

\* readFile and readFileSync are modelled as called without an encoding
readFile(F, M, p) ==
    LET resolved == resolve(M, p) IN
    IF IsNull(resolved) THEN Did(F, <<Dlv("cb", HostReadFile(F, p))>>)
    ELSE IF IsDir(resolved) THEN Did(F, <<isDirError(TRUE)>>)
    ELSE IF Falsy(resolved) THEN Did(F, <<notFoundError(TRUE)>>)
    ELSE Did(F, <<Dlv("cb", pkglock_read(F, resolved))>>)

readFileSync(F, M, p) ==
    LET resolved == resolve(M, p) IN
    IF IsNull(resolved)
    THEN LET h == HostReadFile(F, p) IN
         Did(F, <<Dlv(IF h.out = "ok" THEN "return" ELSE "throw", h)>>)
    ELSE IF IsDir(resolved) THEN Did(F, <<isDirError(FALSE)>>)
    ELSE IF Falsy(resolved) THEN Did(F, <<notFoundError(FALSE)>>)
    ELSE LET data == pkglock_read(F, resolved) IN
         Did(F, <<Dlv(IF data.out = "ok" THEN "return" ELSE "throw", data)>>)

\* the array as it is, a name once for each time it was pushed
NoDedupe(files) == files

\* [...new Set(files)]: the first occurrence of each name, in order
RECURSIVE Dedupe(_)
Dedupe(files) ==
    IF files = <<>> THEN <<>>
    ELSE LET front == Dedupe(SubSeq(files, 1, Len(files) - 1))
             x == files[Len(files)]
         IN IF \E i \in 1..Len(front) : front[i] = x THEN front ELSE Append(front, x)

readdir(F, M, p) ==
    LET h == HostReaddir(F, p) IN
    IF h.out = "err" /\ h.code # "ENOENT" THEN Did(F, <<Dlv("cb", h)>>)
    ELSE LET found == h.out = "ok"
             files == IF found THEN h.val.names ELSE <<>>
             resolved == resolve(M, p)
         IN IF ~Falsy(resolved) /\ IsDir(resolved)
            THEN Did(F, <<Dlv("cb", Ok(Names(Dedupe(files \o resolved.dir))))>>)
            ELSE IF ~found THEN Did(F, <<notFoundError(TRUE)>>)
            ELSE IF ~Falsy(resolved) /\ ~IsDir(resolved) THEN Did(F, <<notDirError(TRUE)>>)
            ELSE Did(F, <<Dlv("cb", Ok(Names(Dedupe(files))))>>)

readdirSync(F, M, p) ==
    LET h == HostReaddir(F, p) IN
    IF h.out = "err" /\ h.code # "ENOENT" THEN Did(F, <<Dlv("throw", h)>>)
    ELSE LET found == h.out = "ok"
             files == IF found THEN h.val.names ELSE <<>>
             resolved == resolve(M, p)
         IN IF ~Falsy(resolved) /\ IsDir(resolved)
            THEN Did(F, <<Dlv("return", Ok(Names(Dedupe(files \o resolved.dir))))>>)
            ELSE IF ~found THEN Did(F, <<notFoundError(FALSE)>>)
            ELSE IF ~Falsy(resolved) /\ ~IsDir(resolved) THEN Did(F, <<notDirError(FALSE)>>)
            ELSE Did(F, <<Dlv("return", Ok(Names(Dedupe(files))))>>)

\* what writeFile writes when it is handed undefined for the data
UndefinedBytes == <<9>>
AsResult(d) == [out |-> d.out, val |-> d.val, code |-> d.code, errno |-> d.errno]

\* For a File: mkdirp of the parent, then fs.readFile (the patched one), then
\* writeFile with the mode; an error is called back and the chain goes on.
chmod(F, M, p, mode) ==
    LET resolved == resolve(M, p) IN
    IF IsNull(resolved)
    THEN LET h == HostChmod(F, p, mode) IN Did(h.fs, <<Dlv("cb", h.ret)>>)
    ELSE IF Falsy(resolved) THEN Did(F, <<notFoundError(FALSE)>>)
    ELSE IF IsDir(resolved)
         THEN LET mk == HostMkdirp(F, p, mode) IN Did(mk.fs, <<Dlv("cb", mk.ret)>>)
    ELSE LET mk == HostMkdirp(F, Parent(p), 511)
             rd == readFile(mk.fs, M, p).dl[1]
             wf == HostWriteFile(mk.fs, p,
                                 IF rd.out = "ok" THEN rd.val.bytes ELSE UndefinedBytes, mode)
         IN Did(wf.fs,
                (IF mk.ret.out = "err" THEN <<Dlv("cb", mk.ret)>> ELSE <<>>)
                \o (IF rd.out = "err" THEN <<Dlv("cb", AsResult(rd))>> ELSE <<>>)
                \o <<Dlv("cb", wf.ret)>>)

\* the callback open hands to fs.chmod, run once for each time chmod calls back
RECURSIVE OpenAfterChmod(_, _, _, _)
OpenAfterChmod(F, ds, p, flags) ==
    IF ds = <<>> THEN Did(F, <<>>)
    ELSE IF Head(ds).out = "err"
         THEN LET rest == OpenAfterChmod(F, Tail(ds), p, flags) IN
              Did(rest.fs, <<Dlv("cb", AsResult(Head(ds)))>> \o rest.dl)
    ELSE LET o == HostOpen(F, p, flags)
             rest == OpenAfterChmod(o.fs, Tail(ds), p, flags)
         IN Did(rest.fs, <<Dlv("cb", o.ret)>> \o rest.dl)

\* The real open runs first; fs.chmod is the patched chmod.
open(F, M, p, flags) ==
    LET h == HostOpen(F, p, flags) IN
    IF h.ret.out = "ok" \/ h.ret.code # "ENOENT" THEN Did(h.fs, <<Dlv("cb", h.ret)>>)
    ELSE LET resolved == resolve(M, p) IN
         IF Falsy(resolved) THEN Did(F, <<notFoundError(TRUE)>>)
         ELSE IF IsDir(resolved) THEN Did(F, <<isDirError(TRUE)>>)
         ELSE LET st == pkglock_stat(F, resolved, TRUE) IN
              IF st.out = "null" THEN Did(F, <<Dlv("cb", Err("ENOENT"))>>)
              ELSE IF flags = "r"
                   THEN LET c == HostOpen(F, CachePath(resolved.digest), flags) IN
                        Did(c.fs, <<Dlv("cb", c.ret)>>)
              ELSE LET cp == HostCopyFile(F, CachePath(resolved.digest), p) IN
                   IF cp.ret.out = "err" THEN Did(cp.fs, <<Dlv("cb", cp.ret)>>)
                   ELSE LET ch == chmod(cp.fs, M, p, MODE_755) IN
                        OpenAfterChmod(ch.fs, ch.dl, p, flags)

SyncDlv(r) == Dlv(IF r.out = "ok" THEN "return" ELSE "throw", r)

\* a copy in the reverse direction, from the real path to the cache path
MaterialiseBack(F, resolved, p) ==
    LET cp == HostCopyFile(F, p, CachePath(resolved.digest)) IN
    IF cp.ret.out = "err" THEN cp ELSE HostChmod(cp.fs, p, MODE_755)

\* copyFileSync, chmodSync, then the host call on the real path
Materialise(F, resolved, p) ==
    LET cp == HostCopyFile(F, CachePath(resolved.digest), p) IN
    IF cp.ret.out = "err" THEN cp ELSE HostChmod(cp.fs, p, MODE_755)

openSync(F, M, p, flags) ==
    LET resolved == resolve(M, p) IN
    IF IsNull(resolved)
    THEN LET h == HostOpen(F, p, flags) IN Did(h.fs, <<SyncDlv(h.ret)>>)
    ELSE IF Falsy(resolved) THEN Did(F, <<notFoundError(FALSE)>>)
    ELSE IF IsDir(resolved) THEN Did(F, <<isDirError(FALSE)>>)
    ELSE LET st == pkglock_stat(F, resolved, TRUE) IN
         IF st.out = "null" THEN Did(F, <<notFoundError(FALSE)>>)
         ELSE IF flags = "r"
              THEN LET c == HostOpen(F, CachePath(resolved.digest), flags) IN
                   Did(c.fs, <<SyncDlv(c.ret)>>)
         ELSE LET mt == Materialise(F, resolved, p) IN
              IF mt.ret.out = "err" THEN Did(mt.fs, <<Dlv("throw", mt.ret)>>)
              ELSE LET h == HostOpen(mt.fs, p, flags) IN Did(h.fs, <<SyncDlv(h.ret)>>)

\* The host's streams: the stream opens the path with the options' flags and
\* reports by an event. opts is "none" (no options) or the flags it carries.
HostCreateReadStream(F, p, opts) ==
    LET o == HostOpen(F, p, IF opts = "none" THEN "r" ELSE opts) IN
    IF o.ret.out = "ok" /\ F[p].kind = "dir"
    THEN Did(o.fs, <<Dlv("event", Err("EISDIR"))>>)
    ELSE Did(o.fs, <<Dlv("event", o.ret)>>)

HostCreateWriteStream(F, p, opts) ==
    LET o == HostOpen(F, p, IF opts = "none" THEN "w" ELSE opts) IN
    Did(o.fs, <<Dlv("event", o.ret)>>)

createReadStream(F, M, p, opts) ==
    LET resolved == resolve(M, p) IN
    IF Falsy(resolved) \/ IsDir(resolved) THEN HostCreateReadStream(F, p, opts)
    ELSE LET st == pkglock_stat(F, resolved, TRUE) IN
         IF st.out = "null" THEN HostCreateReadStream(F, p, opts)
         ELSE IF opts = "r"
              THEN HostCreateReadStream(F, CachePath(resolved.digest), opts)
         ELSE LET mt == Materialise(F, resolved, p) IN
              IF mt.ret.out = "err" THEN Did(mt.fs, <<Dlv("throw", mt.ret)>>)
              ELSE HostCreateReadStream(mt.fs, p, opts)

createWriteStream(F, M, p, opts) ==
    LET resolved == resolve(M, p) IN
    IF Falsy(resolved) \/ IsDir(resolved) THEN HostCreateWriteStream(F, p, opts)
    ELSE LET st == pkglock_stat(F, resolved, TRUE) IN
         IF st.out = "null" THEN HostCreateWriteStream(F, p, opts)
         ELSE LET mt == Materialise(F, resolved, p) IN
              IF mt.ret.out = "err" THEN Did(mt.fs, <<Dlv("throw", mt.ret)>>)
              ELSE HostCreateWriteStream(mt.fs, p, opts)

\* undefined is Ok(Undefined)
internalModuleReadJSON(F, M, p) ==
    LET resolved == resolve(M, p) IN
    IF IsNull(resolved) THEN Did(F, <<Dlv("return", HostInternalModuleReadJSON(F, p))>>)
    ELSE IF Falsy(resolved) \/ IsDir(resolved) THEN Did(F, <<Dlv("return", Ok(Undefined))>>)
    ELSE LET data == pkglock_read(F, resolved) IN
         Did(F, <<Dlv("return", IF data.out = "ok" THEN data ELSE Ok(Undefined))>>)

\* the probe without the dependency-root case
internalModuleStatNoRoot(F, M, p) ==
    LET resolved == resolve(M, p) IN
    IF IsNull(resolved) THEN Did(F, <<Dlv("return", Ok(Num(HostInternalModuleStat(F, p))))>>)
    ELSE IF ~Falsy(resolved) /\ IsFile(resolved) THEN Did(F, <<Dlv("return", Ok(Num(0)))>>)
    ELSE IF ~Falsy(resolved) /\ IsDir(resolved) THEN Did(F, <<Dlv("return", Ok(Num(1)))>>)
    ELSE Did(F, <<Dlv("return", Ok(Num(-34)))>>)

internalModuleStat(F, M, p) ==
    LET resolved == resolve(M, p) IN
    IF IsNull(resolved) THEN Did(F, <<Dlv("return", Ok(Num(HostInternalModuleStat(F, p))))>>)
    ELSE IF ~Falsy(resolved) /\ IsFile(resolved) THEN Did(F, <<Dlv("return", Ok(Num(0)))>>)
    ELSE IF ~Falsy(resolved) /\ IsDir(resolved) THEN Did(F, <<Dlv("return", Ok(Num(1)))>>)
    ELSE IF Falsy(resolved) /\ Basename(p) = NM THEN Did(F, <<Dlv("return", Ok(Num(1)))>>)
    ELSE Did(F, <<Dlv("return", Ok(Num(-34)))>>)

\* process.dlopen and the .node loader: the host loads the file at a path
HostLoad(F, p) ==
    IF PathErr(F, p) # "" THEN Err(PathErr(F, p))
    ELSE IF F[p].kind = "dir" THEN Err("EISDIR")
    ELSE Ok(PathVal(p))

overrideAPISync(F, M, p) ==
    LET resolved == resolve(M, p) IN
    IF IsNull(resolved) THEN Did(F, <<SyncDlv(HostLoad(F, p))>>)
    ELSE IF IsDir(resolved) THEN Did(F, <<isDirError(FALSE)>>)
    ELSE IF Falsy(resolved) THEN Did(F, <<notFoundError(FALSE)>>)
    ELSE LET st == pkglock_stat(F, resolved, TRUE) IN
         IF st.out = "null" THEN Did(F, <<notFoundError(FALSE)>>)
         ELSE Did(F, <<SyncDlv(HostLoad(F, CachePath(resolved.digest)))>>)

\* ------------------------------------------------------- the installer
\* The text of a file is a sequence of tokens: a byte-order mark,
\* insignificant whitespace, the serialisation of a JSON value, or bytes
\* that are no JSON. Absent is the content of a file that does not exist.
BOM == "bom"
SP == "sp"
BAD == "bad"
Absent == <<"ENOENT">>

\* the lockfile objects and the objects {lockfile_integrity: ...}
Locks == {"L1", "L2"}
Seals == {"S1", "S2"}
JsonValues == Locks \cup Seals

\* the text npm writes for a lockfile object: formatted
NpmText(v) == <<v, SP>>

\* what a user leaves in a lockfile: a lockfile as npm writes it, the same
\* object saved compact behind a byte-order mark, or something that does
\* not parse
LockTexts == {NpmText("L1"), <<BOM, "L1">>, NpmText("L2"), <<BAD>>}
ShrinkTexts == {NpmText("L1"), NpmText("L2")}
SealTexts == {<<BAD>>}

stripBOM(str) == IF Len(str) >= 1 /\ str[1] = BOM THEN Tail(str) ELSE str

NotSpace(t) == t # SP

JSON_parse(str) ==
    LET body == SelectSeq(str, NotSpace) IN
    IF Len(body) = 1 /\ body[1] \in JsonValues
    THEN [out |-> "ok", v |-> body[1]]
    ELSE [out |-> "throw", v |-> ""]

JSON_stringify(v) == <<v>>

\* the integrity string of a piece of data (a collision-free digest)
ssri_fromData(data) ==
    CASE data = <<"L1">> -> "sha512-L1"
      [] data = <<"L2">> -> "sha512-L2"
      [] OTHER -> "sha512-x"

\* the lockfile_integrity member of a parsed object ("" is undefined)
lockfile_integrity(v) ==
    CASE v = "S1" -> "sha512-L1"
      [] v = "S2" -> "sha512-L2"
      [] OTHER -> ""

\* the object {lockfile_integrity: sri}
SealObject(sri) == IF sri = "sha512-L1" THEN "S1" ELSE "S2"

ssri_checkData(data, sri) == sri # "" /\ ssri_fromData(data) = sri

readJson(file, ignoreMissing) ==
    IF file = Absent
    THEN [out |-> IF ignoreMissing THEN "undefined" ELSE "throw", v |-> ""]
    ELSE JSON_parse(stripBOM(file))

\* a seal check that asks for the two files to parse and no more
checkPkgLockNoIntegrity(fs) ==
    /\ fs.lock # Absent /\ fs.seal # Absent
    /\ JSON_parse(stripBOM(fs.lock)).out = "ok"
    /\ JSON_parse(stripBOM(fs.seal)).out = "ok"

\* the seal check of the prepare command; false for every failure
checkPkgLock(fs) ==
    IF fs.lock = Absent THEN FALSE
    ELSE LET lock == JSON_parse(stripBOM(fs.lock)) IN
         IF lock.out = "throw" \/ fs.seal = Absent THEN FALSE
         ELSE LET map == JSON_parse(stripBOM(fs.seal)) IN
              IF map.out = "throw" THEN FALSE
              ELSE ssri_checkData(JSON_stringify(lock.v), lockfile_integrity(map.v))

\* ---- the dependency tree: root -> a -> b
Root == "root"
Deps == {"a", "b"}
Nodes == {Root} \cup Deps
ParentOf == [a |-> Root, b |-> "a"]
Children(n) == {d \in Deps : ParentOf[d] = n}

NoNode == [dev |-> FALSE, bundled |-> FALSE, directory |-> FALSE, scripts |-> FALSE,
           optional |-> FALSE, build |-> FALSE, breaks |-> ""]
NoTree == [n \in Nodes |-> NoNode]

\* The trees buildLogicalTree gives: the root is no development dependency;
\* what is required by a development dependency only is one itself. scripts
\* says that the package.json declares a preinstall, install or postinstall
\* script, or bundleDependencies / bundledDependencies; build that it has
\* bin, man, directories.bin or an install or postinstall script; optional
\* is the lockfile's flag; breaks is the step of building the package that
\* ends with an error, "" when none does.
TreeOf(a, b) == [n \in Nodes |-> IF n = "a" THEN a ELSE IF n = "b" THEN b ELSE NoNode]

\* a registry package with scripts that builds without an error
Pkg(dev) ==
    [dev |-> dev, bundled |-> FALSE, directory |-> FALSE, scripts |-> TRUE,
     optional |-> FALSE, build |-> TRUE, breaks |-> ""]

\* trees that differ in what fetchTree looks at
Trees ==
    {TreeOf([Pkg(dev) EXCEPT !.bundled = bu, !.directory = di, !.scripts = sc], Pkg(dev)) :
        dev \in BOOLEAN, bu \in BOOLEAN, di \in BOOLEAN, sc \in BOOLEAN}

\* what buildTree looks at in a package: optional, build and breaks; only
\* what has an install script can break in it
Builds ==
    {[optional |-> o, build |-> bd, breaks |-> br] :
        o \in BOOLEAN, bd \in BOOLEAN, br \in {"", "preinstall", "install"}}
    \ {[optional |-> o, build |-> FALSE, breaks |-> "install"] : o \in BOOLEAN}

BuildPkg(dev, x) ==
    [Pkg(dev) EXCEPT !.optional = x.optional, !.build = x.build, !.breaks = x.breaks]

\* trees that differ in what buildTree looks at
BuildTrees ==
    {TreeOf(BuildPkg(dev, x), BuildPkg(dev, y)) :
        dev \in BOOLEAN, x \in Builds, y \in Builds}

IsDevOnly(s) == s \in {"dev", "development"}
IsProdOnly(s) == s \in {"prod", "production"}

Opts ==
    {[force |-> f, only |-> o, also |-> "", dev |-> FALSE, development |-> FALSE,
      production |-> FALSE] : f \in BOOLEAN, o \in {"", "dev", "prod"}}

\* the configurations of a shell: production and dev vary
BuildOpts ==
    {[force |-> FALSE, only |-> "", also |-> "", dev |-> d, development |-> FALSE,
      production |-> pr] : d \in BOOLEAN, pr \in BOOLEAN}

checkDepEnv(dep, opts) ==
    LET includeDev == \/ opts.dev
                      \/ opts.development
                      \/ (~IsProdOnly(opts.only) /\ ~opts.production)
                      \/ IsDevOnly(opts.only)
                      \/ IsDevOnly(opts.also)
        includeProd == ~IsDevOnly(opts.only)
    IN (dep.dev /\ includeDev) \/ (~dep.dev /\ includeProd)

\* ---- the state of the installer
MapStages ==
    {"fetchTree", "updateJson", "buildTree", "tinkifyBins", "runScript prepublish",
     "runScript prepare", "writeLockHash"}

\* writeLockHash at once after the trees are walked
AfterSealEarly(stage) ==
    CASE stage = "fetchTree" -> "updateJson"
      [] stage = "updateJson" -> "writeLockHash"
      [] stage = "writeLockHash" -> "buildTree"
      [] stage = "buildTree" -> "tinkifyBins"
      [] stage = "tinkifyBins" -> "runScript prepublish"
      [] stage = "runScript prepublish" -> "runScript prepare"
      [] stage = "runScript prepare" -> "teardown"

\* run: what is awaited once a stage has resolved
After(stage) ==
    CASE stage = "fetchTree" -> "updateJson"
      [] stage = "updateJson" -> "buildTree"
      [] stage = "buildTree" -> "tinkifyBins"
      [] stage = "tinkifyBins" -> "runScript prepublish"
      [] stage = "runScript prepublish" -> "runScript prepare"
      [] stage = "runScript prepare" -> "writeLockHash"
      [] stage = "writeLockHash" -> "teardown"

\* the argv of the command that called the installer
NoArgv == [force |-> FALSE, production |-> FALSE]

NoOpts == [force |-> FALSE, only |-> "", also |-> "", dev |-> FALSE, development |-> FALSE,
           production |-> FALSE]

\* no run in progress
NoInstaller ==
    [pc |-> "idle", opts |-> NoOpts, force |-> FALSE, validLockHash |-> FALSE,
     shrinkwrap |-> "", pkglockHash |-> "", src |-> "", verified |-> FALSE, stages |-> {},
     argv |-> NoArgv]

\* new Installer(opts): validLockHash starts false
NewInstaller(opts) ==
    [pc |-> "prepare", opts |-> opts, force |-> opts.force, validLockHash |-> FALSE,
     shrinkwrap |-> "", pkglockHash |-> "", src |-> "", verified |-> FALSE, stages |-> {},
     argv |-> NoArgv]

\* fetchTree: visited, nexted, order, fetched, extracted, linked; updateJson:
\* entered, settled, jorder; buildTree: bentered (the callback began),
\* bnexted (it awaits next()), bsettled (its promise settled), rejected (it
\* settled by rejecting), raised (a step of its own threw), failedDeps and
\* events (the lifecycle steps that completed, in order)
NoWalk ==
    [visited |-> {}, nexted |-> {}, order |-> <<>>, fetched |-> {}, extracted |-> {},
     linked |-> {}, entered |-> {}, settled |-> {}, jorder |-> <<>>,
     bentered |-> {}, bnexted |-> {}, bsettled |-> {}, rejected |-> {}, raised |-> {},
     failedDeps |-> {}, events |-> <<>>]

\* ---- the scripts of a dependency's package.json
\* A script is the sequence of its characters; <<>> is a script that is not
\* there (or is empty: both are falsy). has is whether pkg.scripts is there.
WordChar ==
    {"a", "b", "d", "e", "g", "h", "i", "j", "k", "l", "m", "n", "o", "p", "r",
     "s", "t", "u", "x", "y"}

NoScripts == [has |-> FALSE, preinstall |-> <<>>, install |-> <<>>, postinstall |-> <<>>]

\* 'node-gyp rebuild'
GypRebuild ==
    <<"n", "o", "d", "e", "-", "g", "y", "p", " ", "r", "e", "b", "u", "i", "l", "d">>

\* /\bnode([^-\w]|$)/ matches in s at i
NodeAt(s, i) ==
    /\ i + 3 <= Len(s)
    /\ SubSeq(s, i, i + 3) = <<"n", "o", "d", "e">>
    /\ (i = 1 \/ s[i - 1] \notin WordChar)
    /\ (i + 3 = Len(s) \/ s[i + 4] \notin WordChar \cup {"-"})

\* s.replace(/\bnode([^-\w]|$)/, 'tish$1'): the first match only
Tish(s) ==
    LET at == {i \in 1..Len(s) : NodeAt(s, i)}
    IN  IF at = {} THEN s
        ELSE LET i == CHOOSE j \in at : \A k \in at : j <= k
             IN  SubSeq(s, 1, i - 1) \o <<"t", "i", "s", "h">> \o SubSeq(s, i + 4, Len(s))

\* a package with a .gyp file and no install script gets 'node-gyp rebuild'
WithGyp(pkg, gyp) ==
    IF pkg.install = <<>> /\ gyp
    THEN [pkg EXCEPT !.has = TRUE, !.install = GypRebuild]
    ELSE pkg

\* the variable modified after the three scripts: each script that is there
\* assigns it whether its text is the same as before
Modified(p) ==
    LET m1 == IF p.preinstall # <<>> THEN Tish(p.preinstall) = p.preinstall ELSE FALSE
        m2 == IF p.install # <<>> THEN Tish(p.install) = p.install ELSE m1
    IN  IF p.postinstall # <<>> THEN Tish(p.postinstall) = p.postinstall ELSE m2

\* updateInstallScript(dep, pkg): the package it returns and whether it
\* wrote package.json
updateInstallScript(pkg, gyp) ==
    LET p == WithGyp(pkg, gyp)
    IN  [pkg |-> [p EXCEPT !.preinstall = Tish(@), !.install = Tish(@),
                           !.postinstall = Tish(@)],
         write |-> p.has /\ Modified(p)]

\* disk is package.json in the dependency's directory and gyp whether a .gyp
\* file is there; read, pkg and wrote are what the last updateInstallScript
\* was given, returned and did
NoPkgJson ==
    [disk |-> NoScripts, gyp |-> FALSE, called |-> FALSE, read |-> NoScripts,
     pkg |-> NoScripts, wrote |-> FALSE]

NoCmd == [name |-> "", force |-> FALSE, invoked |-> FALSE]
\* rejected is the stage that rejected in a run that ended with an error
NoRun == [status |-> "", force |-> FALSE, sealAbsent |-> FALSE, verified |-> FALSE,
          stages |-> {}, rejected |-> ""]
NoSeal == [src |-> "", bytes |-> <<>>, obj |-> "", text |-> <<>>]
NoHist == [nedit |-> 0, cmd |-> NoCmd, run |-> NoRun, sealed |-> NoSeal]

\* a project with a package-lock.json and no map yet
InstallerAtRest ==
    /\ pfiles = [lock |-> NpmText("L1"), shrink |-> Absent, seal |-> Absent]
    /\ inst = NoInstaller
    /\ tree = NoTree
    /\ walk = NoWalk
    /\ hist = NoHist

\* ---- the steps
\* any further step ends what the last command and the last run showed
Step(h) == [h EXCEPT !.cmd = NoCmd, !.run = NoRun]

\* A user edits, adds or deletes a file while no run is in progress.
UserEdit(fs) ==
    /\ inst.pc = "idle"
    /\ hist.nedit < MaxEdits
    /\ fs # pfiles
    /\ pfiles' = fs
    /\ hist' = [Step(hist) EXCEPT !.nedit = @ + 1]
    /\ UNCHANGED <<inst, tree, walk>>
    /\ UNCHANGED <<ovars, pkgjson>>

UserEditLock == \E t \in LockTexts \cup {Absent} : UserEdit([pfiles EXCEPT !.lock = t])

UserEditShrinkwrap == \E t \in ShrinkTexts \cup {Absent} : UserEdit([pfiles EXCEPT !.shrink = t])

UserEditSeal == \E t \in SealTexts \cup {Absent} : UserEdit([pfiles EXCEPT !.seal = t])

\* The handler of the prepare command on argv: the installer runs when
\* force is given or the seal check fails, and is handed a log function and
\* nothing of argv. opts, one of O, is what the installer's configuration
\* makes of that.
PrepareHandler(argv, O) ==
    /\ inst.pc = "idle"
    /\ \E opts \in O :
          LET invoked == argv.force \/ ~checkPkgLock(pfiles) IN
          /\ hist' = [hist EXCEPT !.cmd = [name |-> "prepare", force |-> argv.force,
                                          invoked |-> invoked],
                                  !.run = NoRun]
          /\ inst' = IF invoked THEN [NewInstaller(opts) EXCEPT !.argv = argv] ELSE inst
    /\ UNCHANGED <<pfiles, tree, walk>>
    /\ UNCHANGED <<ovars, pkgjson>>

\* the prepare command
prepare ==
    \E force \in BOOLEAN : PrepareHandler([force |-> force, production |-> FALSE], Opts)

\* the shell command: shell(argv) awaits prepare.handler(argv)
shell ==
    \E production \in BOOLEAN :
        PrepareHandler([force |-> FALSE, production |-> production], BuildOpts)

\* The installer called by another command.
treeFrog ==
    /\ inst.pc = "idle"
    /\ \E opts \in Opts : inst' = NewInstaller(opts)
    /\ hist' = Step(hist)
    /\ UNCHANGED <<pfiles, tree, walk>>
    /\ UNCHANGED <<ovars, pkgjson>>

\* a stage rejects: run's finally tears down and run rejects
Fail ==
    /\ inst' = NoInstaller
    /\ tree' = NoTree
    /\ walk' = NoWalk
    /\ hist' = [Step(hist) EXCEPT
           !.run = [NoRun EXCEPT !.status = "error", !.stages = inst.stages,
                                 !.rejected = inst.pc]]

\* the lockfile object npm install --package-lock-only arrives at when it
\* finds none, or one out of sync with package.json
NpmLock(shrinkwrap) == IF shrinkwrap = "L1" THEN "L2" ELSE "L1"

\* Installer.prepare with checkLock, and run's choice after it. npmInstall
\* writes package-lock.json; inSync is lockVerify's answer, t, one of T, the
\* tree buildLogicalTree gives.
Installer_prepareOn(T) ==
    /\ inst.pc = "prepare"
    /\ LET lock == readJson(pfiles.lock, TRUE)
           shrink == readJson(pfiles.shrink, TRUE)
           lockHash == readJson(pfiles.seal, TRUE)
           shrinkwrap == IF shrink.out = "ok" THEN shrink.v ELSE lock.v
           sri == lockfile_integrity(lockHash.v)
       IN IF \/ "throw" \in {lock.out, shrink.out, lockHash.out}
             \/ (lockHash.out = "ok" /\ sri # "" /\ shrinkwrap = "")
          THEN Fail /\ UNCHANGED pfiles
          ELSE \E inSync \in BOOLEAN, t \in T :
                  LET mismatch == /\ lockHash.out = "ok"
                                  /\ ~ssri_checkData(JSON_stringify(shrinkwrap), sri)
                      valid == IF mismatch THEN FALSE ELSE inst.validLockHash
                      install == shrinkwrap = "" \/ ~inSync
                      final == IF install THEN NpmLock(shrinkwrap) ELSE shrinkwrap
                  IN /\ pfiles' = IF install THEN [pfiles EXCEPT !.lock = NpmText(final)]
                                  ELSE pfiles
                     /\ inst' = [inst EXCEPT
                            !.pc = IF ~valid \/ inst.force THEN "fetchTree" ELSE "teardown",
                            !.validLockHash = valid,
                            !.shrinkwrap = final,
                            !.pkglockHash = lockHash.v,
                            !.src = IF ~install /\ shrink.out = "ok" THEN "shrink" ELSE "lock",
                            !.verified = /\ lockHash.out = "ok"
                                         /\ ssri_checkData(JSON_stringify(final), sri)]
                     /\ tree' = t
                     /\ walk' = NoWalk
                     /\ hist' = Step(hist)
    /\ UNCHANGED <<ovars, pkgjson>>

Installer_prepare == Installer_prepareOn(Trees)

Installer_prepare_shell == Installer_prepareOn(BuildTrees)

\* forEachAsync calls the callback on a node once its parent called next()
Visitable(n) ==
    /\ n \notin walk.visited
    /\ IF n = Root THEN TRUE ELSE ParentOf[n] \in walk.nexted

\* fetchTree's callback on one node: its own work, then next()
fetchTree_dep ==
    /\ inst.pc = "fetchTree"
    /\ \E n \in Nodes :
          /\ Visitable(n)
          /\ LET dep == tree[n]
                 pass == checkDepEnv(dep, inst.opts)
                 fetch == pass /\ n # Root /\ ~dep.directory /\ ~dep.bundled
             IN walk' = [walk EXCEPT
                    !.visited = @ \cup {n},
                    !.nexted = IF pass THEN @ \cup {n} ELSE @,
                    !.order = IF pass THEN Append(@, n) ELSE @,
                    !.linked = IF pass /\ n # Root /\ dep.directory THEN @ \cup {n} ELSE @,
                    !.fetched = IF fetch THEN @ \cup {n} ELSE @,
                    !.extracted = IF fetch /\ dep.scripts THEN @ \cup {n} ELSE @]
    /\ hist' = Step(hist)
    /\ UNCHANGED <<pfiles, inst, tree>>
    /\ UNCHANGED <<ovars, pkgjson>>

\* timedStage(stage) resolves, and run awaits the next
Resolved(stage) == [inst EXCEPT !.pc = After(stage), !.stages = @ \cup {stage}]

\* a stage of run settles: it resolves, or it rejects and run with it
Settle(stage, ok) ==
    /\ IF ok
       THEN /\ inst' = Resolved(stage)
            /\ hist' = Step(hist)
            /\ UNCHANGED <<tree, walk>>
       ELSE Fail
    /\ UNCHANGED pfiles
    /\ UNCHANGED <<ovars, pkgjson>>

\* the walk has ended; ensurePackage, readJson or extract may have rejected
fetchTree_end ==
    /\ inst.pc = "fetchTree"
    /\ \A n \in Nodes : ~Visitable(n)
    /\ \E ok \in BOOLEAN : Settle("fetchTree", ok)

\* a node whose parent waits in next()
Enterable(n) ==
    /\ n \notin walk.entered
    /\ IF n = Root THEN TRUE
       ELSE ParentOf[n] \in walk.entered /\ ParentOf[n] \notin walk.settled

\* updateJson's callback starts on a node: it returns, or it calls next()
updateJson_dep ==
    /\ inst.pc = "updateJson"
    /\ \E n \in Nodes :
          /\ Enterable(n)
          /\ walk' = [walk EXCEPT
                 !.entered = @ \cup {n},
                 !.settled = IF checkDepEnv(tree[n], inst.opts) THEN @ ELSE @ \cup {n}]
    /\ hist' = Step(hist)
    /\ UNCHANGED <<pfiles, inst, tree>>
    /\ UNCHANGED <<ovars, pkgjson>>

\* a callback that does not wait for next()
ChildrenNotAwaited(n, w) == TRUE

\* next() has resolved for n
ChildrenDone(n, w) == Children(n) \subseteq w.settled

\* after next(): readJson and updateInstallScript of the node itself
updateJson_own ==
    /\ inst.pc = "updateJson"
    /\ \E n \in walk.entered \ walk.settled :
          /\ ChildrenDone(n, walk)
          /\ walk' = [walk EXCEPT !.settled = @ \cup {n}, !.jorder = Append(@, n)]
    /\ hist' = Step(hist)
    /\ UNCHANGED <<pfiles, inst, tree>>
    /\ UNCHANGED <<ovars, pkgjson>>

\* the walk has ended; readJson or updateInstallScript may have rejected
updateJson_end ==
    /\ inst.pc = "updateJson"
    /\ Root \in walk.settled
    /\ \E ok \in BOOLEAN : Settle("updateJson", ok)

\* ---- buildTree
\* a node whose parent waits in next()
BuildEnterable(n) ==
    /\ n \notin walk.bentered
    /\ IF n = Root THEN TRUE
       ELSE ParentOf[n] \in walk.bnexted /\ ParentOf[n] \notin walk.bsettled

\* a catch block that swallows every error
CatchAll(w, n) == [w EXCEPT !.failedDeps = @ \cup {n}, !.bsettled = @ \cup {n}]

\* the catch block of the callback on n: an optional dependency is added to
\* failedDeps and the callback resolves, else the error is thrown again
Catch(w, n) ==
    IF tree[n].optional
    THEN [w EXCEPT !.failedDeps = @ \cup {n}, !.bsettled = @ \cup {n}]
    ELSE [w EXCEPT !.rejected = @ \cup {n}, !.bsettled = @ \cup {n}]

\* the callback starts on a node: it returns, or it runs preinstall and
\* calls next()
buildTree_dep ==
    /\ inst.pc = "buildTree"
    /\ \E n \in Nodes :
          /\ BuildEnterable(n)
          /\ LET began == [walk EXCEPT !.bentered = @ \cup {n}] IN
             IF ~checkDepEnv(tree[n], inst.opts)
             THEN walk' = [began EXCEPT !.bsettled = @ \cup {n}]
             ELSE IF tree[n].breaks # "preinstall"
                  THEN walk' = [began EXCEPT !.bnexted = @ \cup {n},
                                             !.events = Append(@, <<n, "preinstall">>)]
             ELSE walk' = Catch([began EXCEPT !.raised = @ \cup {n}], n)
    /\ hist' = Step(hist)
    /\ UNCHANGED <<pfiles, inst, tree>>
    /\ UNCHANGED <<ovars, pkgjson>>

\* a callback that does not wait for next()
BuildNotAwaited(n, w) == TRUE

\* next() has settled for n
BuildChildrenDone(n, w) == Children(n) \subseteq w.bsettled

\* the steps after next() that run without an error
OwnSteps(dep) ==
    IF dep.breaks = "binLink" THEN <<>>
    ELSE IF dep.breaks = "install" THEN <<"binLink">>
    ELSE IF dep.breaks = "postinstall" THEN <<"binLink", "install">>
    ELSE <<"binLink", "install", "postinstall">>

\* after next(): the error of a child that rejected, or the return for the
\* root and for a package with nothing to link or run, or binLink, install
\* and postinstall up to the one that breaks
buildTree_own ==
    /\ inst.pc = "buildTree"
    /\ \E n \in walk.bnexted \ walk.bsettled :
          /\ BuildChildrenDone(n, walk)
          /\ IF Children(n) \cap walk.rejected # {}
             THEN walk' = Catch(walk, n)
             ELSE IF n = Root \/ ~tree[n].build
                  THEN walk' = [walk EXCEPT !.bsettled = @ \cup {n}]
             ELSE LET steps == OwnSteps(tree[n])
                      ran == [walk EXCEPT
                                 !.events = @ \o [i \in 1..Len(steps) |-> <<n, steps[i]>>]]
                  IN IF Len(steps) = 3
                     THEN walk' = [ran EXCEPT !.bsettled = @ \cup {n}]
                     ELSE walk' = Catch([ran EXCEPT !.raised = @ \cup {n}], n)
    /\ hist' = Step(hist)
    /\ UNCHANGED <<pfiles, inst, tree>>
    /\ UNCHANGED <<ovars, pkgjson>>

\* the walk has ended: buildTree resolves, or rejects as the root's callback did
buildTree_end ==
    /\ inst.pc = "buildTree"
    /\ Root \in walk.bsettled
    /\ Settle("buildTree", Root \notin walk.rejected)

tinkifyBins ==
    /\ inst.pc = "tinkifyBins"
    /\ \E ok \in BOOLEAN : Settle("tinkifyBins", ok)

\* the root's prepublish and prepare scripts
runScript_prepublish ==
    /\ inst.pc = "runScript prepublish"
    /\ \E ok \in BOOLEAN : Settle("runScript prepublish", ok)

runScript_prepare ==
    /\ inst.pc = "runScript prepare"
    /\ \E ok \in BOOLEAN : Settle("runScript prepare", ok)

\* the seal: the integrity of the serialisation of the parsed lockfile
writeLockHash ==
    /\ inst.pc = "writeLockHash"
    /\ LET text == JSON_stringify(SealObject(ssri_fromData(JSON_stringify(inst.shrinkwrap))))
       IN /\ pfiles' = [pfiles EXCEPT !.seal = text]
          /\ hist' = [Step(hist) EXCEPT
                 !.sealed = [src |-> inst.src, bytes |-> pfiles[inst.src],
                            obj |-> inst.shrinkwrap, text |-> text]]
    /\ inst' = Resolved("writeLockHash")
    /\ UNCHANGED <<tree, walk>>
    /\ UNCHANGED <<ovars, pkgjson>>

teardown ==
    /\ inst.pc = "teardown"
    /\ hist' = [hist EXCEPT
           !.cmd = NoCmd,
           !.run = [status |-> "ok", force |-> inst.force,
                    sealAbsent |-> inst.pkglockHash = "", verified |-> inst.verified,
                    stages |-> inst.stages, rejected |-> ""]]
    /\ inst' = NoInstaller
    /\ tree' = NoTree
    /\ walk' = NoWalk
    /\ UNCHANGED pfiles
    /\ UNCHANGED <<ovars, pkgjson>>

NextInstaller ==
    \/ UserEditLock \/ UserEditShrinkwrap \/ UserEditSeal
    \/ prepare \/ treeFrog
    \/ Installer_prepare
    \/ fetchTree_dep \/ fetchTree_end
    \/ updateJson_dep \/ updateJson_own \/ updateJson_end
    \/ buildTree_dep \/ buildTree_own \/ buildTree_end
    \/ tinkifyBins \/ runScript_prepublish \/ runScript_prepare
    \/ writeLockHash \/ teardown

\* ---------------------------------------------------------- the system
\* The package map of the project: node_modules/a with the file i.js.
TheMap ==
    (<<>> :> [kind |-> "dir"])
    @@ (<<"a">> :> [kind |-> "dir"])
    @@ (<<"a", "i.js">> :>
            [kind |-> "file", digest |-> "d1", size |-> Len(BlobBytes), mode |-> MODE_644])

NoCall == [op |-> "none", p |-> <<>>, flags |-> "", mode |-> 0, res |-> "", dl |-> <<>>]

\* The project directory and node_modules (which holds the persisted map)
\* exist; the package directory may have been extracted; a blob may be
\* missing from the cache.
Init ==
    /\ \E pkgdir \in {None, DirEnt(MODE_755)}, blob \in {None, FileEnt(BlobBytes, MODE_644)} :
          realFS = [q \in AllPaths |->
                       IF q \in {Prefix, DepRoot, CacheRoot} THEN DirEnt(MODE_755)
                       ELSE IF q = P_a THEN pkgdir
                       ELSE IF q = CachePath("d1") THEN blob
                       ELSE None]
    /\ pkgmap = TheMap
    /\ nenv = 0
    /\ before = realFS
    /\ last = NoCall
    /\ InstallerAtRest
    /\ pkgjson = NoPkgJson

\* The caller makes an overlay call (op on p did d) and holds what it
\* delivered until it goes on (Return).
Apply(op, p, flags, mode, d) ==
    /\ last = NoCall
    /\ realFS' = d.fs
    /\ before' = realFS
    /\ last' = [op |-> op, p |-> p, flags |-> flags, mode |-> mode,
                res |-> resolve(pkgmap, p).kind, dl |-> d.dl]
    /\ UNCHANGED <<pkgmap, nenv>>
    /\ UNCHANGED <<ivars, pkgjson>>

AccessModes == {F_OK, R_OK, W_OK, X_OK, R_OK + W_OK}
ChmodModes == {MODE_700}
ReadStreamOpts == {"none", "r"}
WriteStreamOpts == {"none", "a"}

Call_lstatSync == \E p \in CallPaths : Apply("lstatSync", p, "", 0, lstatSync(realFS, pkgmap, p))
Call_lstat == \E p \in CallPaths : Apply("lstat", p, "", 0, lstat(realFS, pkgmap, p))
Call_statSync == \E p \in CallPaths : Apply("statSync", p, "", 0, statSync(realFS, pkgmap, p))
Call_stat == \E p \in CallPaths : Apply("stat", p, "", 0, stat(realFS, pkgmap, p))
Call_statSyncNoException ==
    \E p \in CallPaths :
        Apply("statSyncNoException", p, "", 0, statSyncNoException(realFS, pkgmap, p))
Call_realpathSync ==
    \E p \in CallPaths : Apply("realpathSync", p, "", 0, realpathSync(realFS, pkgmap, p))
Call_realpath == \E p \in CallPaths : Apply("realpath", p, "", 0, realpath(realFS, pkgmap, p))
Call_exists == \E p \in CallPaths : Apply("exists", p, "", 0, exists(realFS, pkgmap, p))
Call_existsPromise ==
    \E p \in CallPaths : Apply("existsPromise", p, "", 0, existsPromise(realFS, pkgmap, p))
Call_existsSync == \E p \in CallPaths : Apply("existsSync", p, "", 0, existsSync(realFS, pkgmap, p))
Call_access ==
    \E p \in CallPaths, m \in AccessModes : Apply("access", p, "", m, access(realFS, pkgmap, p, m))
Call_accessSync ==
    \E p \in CallPaths, m \in AccessModes :
        Apply("accessSync", p, "", m, accessSync(realFS, pkgmap, p, m))
Call_readFile == \E p \in CallPaths : Apply("readFile", p, "", 0, readFile(realFS, pkgmap, p))
Call_readFileSync ==
    \E p \in CallPaths : Apply("readFileSync", p, "", 0, readFileSync(realFS, pkgmap, p))
Call_readdir == \E p \in CallPaths : Apply("readdir", p, "", 0, readdir(realFS, pkgmap, p))
Call_readdirSync ==
    \E p \in CallPaths : Apply("readdirSync", p, "", 0, readdirSync(realFS, pkgmap, p))
Call_chmod ==
    \E p \in CallPaths, m \in ChmodModes : Apply("chmod", p, "", m, chmod(realFS, pkgmap, p, m))
Call_open ==
    \E p \in CallPaths, f \in Flags : Apply("open", p, f, 0, open(realFS, pkgmap, p, f))
Call_openSync ==
    \E p \in CallPaths, f \in Flags : Apply("openSync", p, f, 0, openSync(realFS, pkgmap, p, f))
Call_createReadStream ==
    \E p \in CallPaths, o \in ReadStreamOpts :
        Apply("createReadStream", p, o, 0, createReadStream(realFS, pkgmap, p, o))
Call_createWriteStream ==
    \E p \in CallPaths, o \in WriteStreamOpts :
        Apply("createWriteStream", p, o, 0, createWriteStream(realFS, pkgmap, p, o))
Call_internalModuleReadJSON ==
    \E p \in CallPaths :
        Apply("internalModuleReadJSON", p, "", 0, internalModuleReadJSON(realFS, pkgmap, p))
Call_internalModuleStat ==
    \E p \in ProbePaths :
        Apply("internalModuleStat", p, "", 0, internalModuleStat(realFS, pkgmap, p))
Call_dlopen == \E p \in CallPaths : Apply("dlopen", p, "", 0, overrideAPISync(realFS, pkgmap, p))

\* User code changing the real filesystem through primitives the overlay
\* does not patch (writeFileSync, mkdirSync).
EnvStep(F) ==
    /\ last = NoCall
    /\ nenv < MaxEnvSteps
    /\ realFS' = F
    /\ nenv' = nenv + 1
    /\ before' = F
    /\ last' = NoCall
    /\ UNCHANGED pkgmap
    /\ UNCHANGED <<ivars, pkgjson>>

UserWriteFile ==
    \E p \in {P_out, P_a, P_i, P_m} :
        /\ LookupErr(realFS, p) = ""
        /\ realFS[p].kind # "dir"
        /\ EnvStep(HostWriteFile(realFS, p, UserBytes, 438).fs)

UserMkdir ==
    \E p \in {P_a, P_i} :
        /\ LookupErr(realFS, p) = ""
        /\ realFS[p].kind = "none"
        /\ EnvStep([realFS EXCEPT ![p] = DirEnt(MODE_755)])

Return ==
    /\ last # NoCall
    /\ last' = NoCall
    /\ before' = realFS
    /\ UNCHANGED <<realFS, pkgmap, nenv>>
    /\ UNCHANGED <<ivars, pkgjson>>

Next ==
    \/ Call_lstatSync \/ Call_lstat \/ Call_statSync \/ Call_stat
    \/ Call_statSyncNoException \/ Call_realpathSync \/ Call_realpath
    \/ Call_exists \/ Call_existsPromise \/ Call_existsSync
    \/ Call_access \/ Call_accessSync
    \/ Call_readFile \/ Call_readFileSync
    \/ Call_readdir \/ Call_readdirSync
    \/ Call_chmod \/ Call_open \/ Call_openSync
    \/ Call_createReadStream \/ Call_createWriteStream
    \/ Call_internalModuleReadJSON \/ Call_internalModuleStat \/ Call_dlopen
    \/ UserWriteFile \/ UserMkdir
    \/ Return

Spec == Init /\ [][Next]_vars

\* The installer on a project whose overlay is at rest: a package-lock.json,
\* perhaps an npm-shrinkwrap.json, and no persisted map yet.
InitInstaller ==
    /\ realFS = [q \in AllPaths |->
                    IF q \in {Prefix, DepRoot, CacheRoot} THEN DirEnt(MODE_755) ELSE None]
    /\ pkgmap = TheMap
    /\ nenv = 0
    /\ before = realFS
    /\ last = NoCall
    /\ pfiles \in {[lock |-> NpmText("L1"), shrink |-> t, seal |-> Absent] :
                      t \in {Absent, NpmText("L2")}}
    /\ inst = NoInstaller
    /\ tree = NoTree
    /\ walk = NoWalk
    /\ hist = NoHist
    /\ pkgjson = NoPkgJson

SpecInstaller == InitInstaller /\ [][NextInstaller]_vars

\* A shell started again and again in a project that no one edits.
InitShell ==
    /\ InitInstaller
    /\ pfiles.shrink = Absent

NextShell ==
    \/ shell
    \/ Installer_prepare_shell
    \/ fetchTree_dep \/ fetchTree_end
    \/ updateJson_dep \/ updateJson_own \/ updateJson_end
    \/ buildTree_dep \/ buildTree_own \/ buildTree_end
    \/ tinkifyBins \/ runScript_prepublish \/ runScript_prepare
    \/ writeLockHash \/ teardown

SpecShell == InitShell /\ [][NextShell]_vars

\* ------------------------------------------------------------ the claims
\* What the captured host primitive of op does on F with the same arguments.
HostCall(op, F, p, flags, mode) ==
    CASE op \in {"lstatSync", "statSync"} -> Did(F, <<SyncDlv(HostStat(F, p))>>)
      [] op \in {"lstat", "stat"} -> Did(F, <<Dlv("cb", HostStat(F, p))>>)
      [] op = "statSyncNoException" ->
            Did(F, <<Dlv("return", IF HostStat(F, p).out = "ok" THEN HostStat(F, p) ELSE Null)>>)
      [] op = "realpathSync" -> Did(F, <<SyncDlv(HostRealpath(F, p))>>)
      [] op = "realpath" -> Did(F, <<Dlv("cb", HostRealpath(F, p))>>)
      [] op = "exists" -> Did(F, <<Dlv("cb", Ok([pos |-> 1, value |-> HostExists(F, p)]))>>)
      [] op = "existsPromise" -> Did(F, <<Dlv("resolve", Ok(Bool(HostExists(F, p))))>>)
      [] op = "existsSync" -> Did(F, <<Dlv("return", Ok(Bool(HostExists(F, p))))>>)
      [] op = "access" -> Did(F, <<Dlv("cb", HostAccess(F, p, mode))>>)
      [] op = "accessSync" -> Did(F, <<SyncDlv(HostAccess(F, p, mode))>>)
      [] op = "readFile" -> Did(F, <<Dlv("cb", HostReadFile(F, p))>>)
      [] op = "readFileSync" -> Did(F, <<SyncDlv(HostReadFile(F, p))>>)
      [] op = "readdir" -> Did(F, <<Dlv("cb", HostReaddir(F, p))>>)
      [] op = "readdirSync" -> Did(F, <<SyncDlv(HostReaddir(F, p))>>)
      [] op = "chmod" -> Did(HostChmod(F, p, mode).fs, <<Dlv("cb", HostChmod(F, p, mode).ret)>>)
      [] op = "open" -> Did(HostOpen(F, p, flags).fs, <<Dlv("cb", HostOpen(F, p, flags).ret)>>)
      [] op = "openSync" -> Did(HostOpen(F, p, flags).fs, <<SyncDlv(HostOpen(F, p, flags).ret)>>)
      [] op = "createReadStream" -> HostCreateReadStream(F, p, flags)
      [] op = "createWriteStream" -> HostCreateWriteStream(F, p, flags)
      [] op = "internalModuleReadJSON" ->
            Did(F, <<Dlv("return", HostInternalModuleReadJSON(F, p))>>)
      [] op = "internalModuleStat" -> Did(F, <<Dlv("return", Ok(Num(HostInternalModuleStat(F, p))))>>)
      [] op = "dlopen" -> Did(F, <<SyncDlv(HostLoad(F, p))>>)

\* two deliveries carry the same value or the same error, the same way
SameDlv(a, b) ==
    /\ a.via = b.via
    /\ a.out = b.out
    /\ a.code = b.code
    /\ a.errno = b.errno
    /\ (a.out = "ok" => a.val = b.val)

SameDeliveries(x, y) ==
    /\ Len(x) = Len(y)
    /\ \A i \in 1..Len(x) : SameDlv(x[i], y[i])

Called == last # NoCall
\* the result the caller got: the first delivery
Got == last.dl[1]
Failed(code) == Len(last.dl) >= 1 /\ Got.out = "err" /\ Got.code = code
Succeeded == Len(last.dl) >= 1 /\ Got.out = "ok"

\* C1: on a path the resolver classifies as Untracked, every overlay
\* primitive delivers what the captured host primitive delivers on the same
\* arguments and leaves the real filesystem as the host primitive leaves it.
C1_Transparency ==
    (Called /\ last.res = "untracked") =>
        LET h == HostCall(last.op, before, last.p, last.flags, last.mode) IN
        /\ SameDeliveries(last.dl, h.dl)
        /\ realFS = h.fs

\* C1 holds of every primitive but the callback stat and lstat.
C1_TransparencyButStat ==
    (Called /\ last.res = "untracked" /\ last.op \notin {"stat", "lstat"}) =>
        LET h == HostCall(last.op, before, last.p, last.flags, last.mode) IN
        /\ SameDeliveries(last.dl, h.dl)
        /\ realFS = h.fs

\* C1: stat of an untracked path below a real file calls back ENOENT where
\* the host calls back ENOTDIR
C1_Witness ==
    /\ Called
    /\ last.op = "stat"
    /\ last.res = "untracked"
    /\ HostStat(before, last.p) = Err("ENOTDIR")
    /\ Failed("ENOENT")

\* the digest of the map's file entry at p, and the bytes of its blob
DigestAt(p) == pkgmap[RelPath(p)].digest
BlobAt(F, p) == F[CachePath(DigestAt(p))].data
\* the call in last was on a map file whose blob was in the store
OnStoredFile == Called /\ last.res = "file" /\ BlobPresent(before, DigestAt(last.p))

\* C2: when a path has a File resolution (its blob in the store) and a real
\* file exists at it, readFile and readFileSync return the real file's bytes.
C2_RealFileWinsForReads ==
    (/\ OnStoredFile
     /\ last.op \in {"readFile", "readFileSync"}
     /\ before[last.p].kind = "file")
    => (Succeeded /\ Got.val = Bytes(before[last.p].data))

\* C2: readFileSync of a map file returns the blob's bytes while a real file
\* with other bytes is at the path
C2_Witness ==
    /\ OnStoredFile
    /\ last.op = "readFileSync"
    /\ before[last.p] = FileEnt(UserBytes, MODE_644)
    /\ Succeeded
    /\ Got.val = Bytes(BlobBytes)

WriteFlags == Flags \ ReadOnlyFlags

\* C3: after open or openSync with write flags succeeds on a File resolution
\* (its blob in the store) with no real file at the path, a real file holds the blob's bytes with
\* mode 0o755, the descriptor is of the real path, and statSync through the
\* overlay returns the real file's metadata.
C3_MaterialiseOnWrite ==
    (/\ OnStoredFile
     /\ last.op \in {"open", "openSync"}
     /\ last.flags \in WriteFlags
     /\ before[last.p].kind = "none"
     /\ Succeeded)
    => /\ realFS[last.p] = FileEnt(BlobAt(before, last.p), MODE_755)
       /\ Got.val = Fd(last.p)
       /\ SameDeliveries(statSync(realFS, pkgmap, last.p).dl,
                         <<Dlv("return", Ok(RealStat(realFS, last.p)))>>)

\* C3: open with 'a' on a map file with no real file succeeds and leaves an
\* empty real file
C3_Witness ==
    /\ OnStoredFile
    /\ last.op = "open"
    /\ last.flags = "a"
    /\ before[last.p].kind = "none"
    /\ Succeeded
    /\ realFS[last.p] = FileEnt(<<>>, MODE_644)

\* C4: open and openSync with read-only flags on a File resolution open the
\* blob's cache path and write nothing at the requested path.
C4_ReadOnlyOpenZeroCopy ==
    (/\ OnStoredFile
     /\ last.op \in {"open", "openSync"}
     /\ last.flags \in ReadOnlyFlags)
    => /\ realFS = before
       /\ Succeeded => Got.val = Fd(CachePath(DigestAt(last.p)))

\* C4: openSync with 'rs' on a map file copies the blob to the real path and
\* returns a descriptor of the real path
C4_Witness ==
    /\ OnStoredFile
    /\ last.op = "openSync"
    /\ last.flags = "rs"
    /\ before[last.p].kind = "none"
    /\ realFS[last.p] = FileEnt(BlobBytes, MODE_755)
    /\ Succeeded
    /\ Got.val = Fd(last.p)

\* C5: createReadStream on a File resolution streams from the cache path and
\* writes nothing at the requested path, with no options too;
\* createWriteStream on a File resolution materialises the blob at the real
\* path (copy, mode 0o755) and then opens the real path.
C5_StreamSplit ==
    /\ (OnStoredFile /\ last.op = "createReadStream")
       => /\ realFS = before
          /\ Succeeded => Got.val = Fd(CachePath(DigestAt(last.p)))
    /\ (OnStoredFile /\ last.op = "createWriteStream" /\ Succeeded)
       => /\ Got.val = Fd(last.p)
          /\ realFS[last.p].kind = "file"
          /\ realFS[last.p].mode = MODE_755
          /\ last.flags = "a" /\ before[last.p].kind = "none"
                => realFS[last.p].data = BlobAt(before, last.p)

\* C5: createReadStream with no options on a map file copies the blob to the
\* real path and streams from the real path
C5_Witness ==
    /\ OnStoredFile
    /\ last.op = "createReadStream"
    /\ last.flags = "none"
    /\ before[last.p].kind = "none"
    /\ realFS[last.p] = FileEnt(BlobBytes, MODE_755)
    /\ Succeeded
    /\ Got.val = Fd(last.p)

\* sequences as sets, and sequences without a repeated element
Range(sq) == {sq[i] : i \in 1..Len(sq)}
NoDuplicates(sq) == \A i, j \in 1..Len(sq) : sq[i] = sq[j] => i = j

\* the real listing and the map's children of the directory the call was on
RealListing == HostReaddir(before, last.p)
MapKeys == DirKeys(pkgmap, RelPath(last.p))
IsReaddir == Called /\ last.op \in {"readdir", "readdirSync"}

\* readdir on a Dir resolution returns the union of the real listing (empty
\* on a real ENOENT) and the map's children, without duplicates
DirMerge ==
    (/\ IsReaddir
     /\ last.res = "dir"
     /\ RealListing.out = "ok" \/ RealListing.code = "ENOENT")
    => /\ Succeeded
       /\ Range(Got.val.names) =
             (IF RealListing.out = "ok" THEN Range(RealListing.val.names) ELSE {})
             \cup Range(MapKeys)
       /\ NoDuplicates(Got.val.names)

\* C6 as stated: the merge, and the real listing alone when the real
\* readdir succeeds and the resolver returns no Dir.
C6_DirectoryMergeAsStated ==
    /\ DirMerge
    /\ (IsReaddir /\ last.res # "dir" /\ RealListing.out = "ok")
       => (Succeeded /\ Got.val = RealListing.val)

\* C6 as amended: the merge, and the real listing alone when the real
\* readdir succeeds and the resolver returns neither Dir nor File.
C6_DirectoryMerge ==
    /\ DirMerge
    /\ (IsReaddir /\ last.res \in {"untracked", "missing"} /\ RealListing.out = "ok")
       => (Succeeded /\ Got.val = RealListing.val)

\* a readdirSync on a map directory whose real directory holds a name the
\* map has too and a name it has not
C6_Witness ==
    /\ Called
    /\ last.op = "readdirSync"
    /\ last.res = "dir"
    /\ RealListing.out = "ok"
    /\ Range(RealListing.val.names) \cap Range(MapKeys) # {}
    /\ Range(RealListing.val.names) \ Range(MapKeys) # {}
    /\ Succeeded
    /\ Len(Got.val.names) = 2

\* C7: readdir on a File resolution fails with ENOTDIR (errno -20) whether
\* the real readdir succeeded or failed with ENOENT; it fails with ENOENT
\* only when the real readdir fails with ENOENT and the resolver returns
\* neither Dir nor File.
C7_ReaddirKindMismatch ==
    /\ (/\ IsReaddir
        /\ last.res = "file"
        /\ RealListing.out = "ok" \/ RealListing.code = "ENOENT")
       => (Failed("ENOTDIR") /\ Got.errno = -20)
    /\ (IsReaddir /\ Failed("ENOENT"))
       => (RealListing.out = "err" /\ RealListing.code = "ENOENT"
           /\ last.res \notin {"dir", "file"})

\* C7: readdir of a map file with nothing real at the path fails with ENOENT
C7_Witness ==
    /\ IsReaddir
    /\ last.res = "file"
    /\ RealListing = Err("ENOENT")
    /\ Failed("ENOENT")

StatFamily == {"stat", "lstat", "statSync", "lstatSync", "realpath", "realpathSync"}

\* C8: when the real call of stat, lstat, statSync, lstatSync, realpath or
\* realpathSync fails with an error other than ENOENT, the caller receives
\* exactly that error.
C8_HostErrorsPropagated ==
    (/\ Called
     /\ last.op \in StatFamily
     /\ HostStat(before, last.p).out = "err"
     /\ HostStat(before, last.p).code # "ENOENT")
    => SameDeliveries(last.dl,
                      HostCall(last.op, before, last.p, last.flags, last.mode).dl)

\* C8: lstat of a map file below a real file calls back the map's record
\* where the host fails with ENOTDIR
C8_Witness ==
    /\ Called
    /\ last.op = "lstat"
    /\ last.res = "file"
    /\ HostStat(before, last.p) = Err("ENOTDIR")
    /\ Succeeded

FailingPrimitives ==
    StatFamily \cup {"access", "accessSync", "readFile", "readFileSync", "readdir",
                     "readdirSync", "open", "openSync", "chmod", "createReadStream",
                     "createWriteStream"}

\* C9: a call of a primitive that reports failure on a path the resolver
\* classifies as Missing fails with ENOENT (errno -2) and has no effect on
\* the real filesystem.
C9_MissingIsENOENT ==
    (Called /\ last.op \in FailingPrimitives /\ last.res = "missing")
    => /\ Failed("ENOENT")
       /\ Got.errno = -2
       /\ Len(last.dl) = 1
       /\ realFS = before

\* C9: createWriteStream on a Missing path opens, creating a real file
C9_Witness ==
    /\ Called
    /\ last.op = "createWriteStream"
    /\ last.res = "missing"
    /\ before[last.p].kind = "none"
    /\ Succeeded
    /\ realFS[last.p].kind = "file"

\* C10: access on a Dir resolution succeeds when the mode is F_OK or only
\* read bits, and fails with EACCES (errno -13) for every mode with the
\* write or the execute bit.
C10_DirectoryAccessModes ==
    (Called /\ last.op \in {"access", "accessSync"} /\ last.res = "dir")
    => IF HasBit(last.mode, W_OK) \/ HasBit(last.mode, X_OK)
       THEN Failed("EACCES") /\ Got.errno = -13
       ELSE Succeeded

\* C10: accessSync with R_OK|W_OK on a map directory succeeds
C10_Witness ==
    /\ Called
    /\ last.op = "accessSync"
    /\ last.res = "dir"
    /\ last.mode = R_OK + W_OK
    /\ Succeeded

AsyncPrimitives ==
    {"lstat", "stat", "realpath", "exists", "access", "readFile", "readdir", "chmod", "open"}

\* C11: a call of a callback-style primitive delivers every error through
\* the callback; the call itself does not throw.
C11_AsyncNeverThrows ==
    (Called /\ last.op \in AsyncPrimitives)
    => \A i \in 1..Len(last.dl) : last.dl[i].via = "cb"

\* C11: chmod on a Missing path throws ENOENT
C11_Witness ==
    /\ Called
    /\ last.op = "chmod"
    /\ last.res = "missing"
    /\ Len(last.dl) = 1
    /\ Got.via = "throw"
    /\ Failed("ENOENT")

ExistsForms == {"exists", "existsPromise", "existsSync"}

\* C12: on a path of the dependency root the three forms of exists report
\* true for a Dir or File resolution and false for Missing, the callback
\* form in the position the host's exists calls back in (the first).
C12_ExistsForms ==
    (Called /\ last.op \in ExistsForms /\ last.res # "untracked")
    => /\ Len(last.dl) = 1
       /\ Got.out = "ok"
       /\ Got.val = IF last.op = "exists"
                    THEN [pos |-> 1, value |-> last.res \in {"dir", "file"}]
                    ELSE Bool(last.res \in {"dir", "file"})

\* C12: exists on a map directory calls back (null, true): the boolean is
\* the second argument
C12_Witness ==
    /\ Called
    /\ last.op = "exists"
    /\ last.res = "dir"
    /\ Got.val = [pos |-> 2, value |-> TRUE]

\* C13: for a path that is not Untracked internalModuleStat returns 0 for a
\* File, 1 for a Dir, 1 for a Missing path whose basename is node_modules and
\* -34 otherwise; for an Untracked path it returns the host probe's result.
C13_ModuleStatProbe ==
    (Called /\ last.op = "internalModuleStat")
    => /\ Len(last.dl) = 1
       /\ Got.via = "return"
       /\ Got.out = "ok"
       /\ Got.val = Num(CASE last.res = "untracked" -> HostInternalModuleStat(before, last.p)
                           [] last.res = "file" -> 0
                           [] last.res = "dir" -> 1
                           [] OTHER -> IF Basename(last.p) = NM THEN 1 ELSE -34)
       /\ realFS = before

\* C13: the probe of a Missing path named node_modules answers 1
C13_Witness ==
    /\ Called /\ last.op = "internalModuleStat" /\ last.res = "missing"
    /\ Basename(last.p) = NM
    /\ Got.val = Num(1)

AllOk == Len(last.dl) >= 1 /\ \A i \in 1..Len(last.dl) : last.dl[i].out = "ok"

\* C14: after chmod(p, mode) completes without error, a File path is a real
\* file with the blob's bytes and permission bits mode, and a Dir path is a
\* real directory with permission bits mode, whatever was at p before the call.
C14_ChmodCopyOnWrite ==
    (Called /\ last.op = "chmod" /\ AllOk)
    => /\ last.res = "file"
          => realFS[last.p] = FileEnt(BlobAt(before, last.p), last.mode)
       /\ last.res = "dir" => realFS[last.p] = DirEnt(last.mode)

\* C14: chmod of a map file that nothing real stood for creates the real file
\* with the blob's bytes and the mode
C14_Witness ==
    /\ Called /\ last.op = "chmod" /\ AllOk /\ OnStoredFile
    /\ before[last.p].kind = "none"
    /\ realFS[last.p] = FileEnt(BlobAt(before, last.p), last.mode)

IsPrefix(q, p) == Len(q) <= Len(p) /\ SubSeq(p, 1, Len(q)) = q

\* C15: the overlay never writes the map or a blob: after every overlay call
\* the map is the one the process started with, the resolver answers as it
\* did then, the cache holds what it held before the call, and whatever
\* changed in the filesystem is the called path or a directory above it.
C15_MapAndBlobsReadOnly ==
    /\ pkgmap = TheMap
    /\ \A q \in Paths : resolve(pkgmap, q) = resolve(TheMap, q)
    /\ Called
       => /\ realFS[CacheRoot] = before[CacheRoot]
          /\ \A d \in Digests : realFS[CachePath(d)] = before[CachePath(d)]
          /\ \A q \in AllPaths : realFS[q] # before[q] => IsPrefix(q, last.p)

\* C15: a write-open, a write stream or a chmod of a stored map file that a
\* user's file stands at changes the real path and leaves the blob
C15_Witness ==
    /\ OnStoredFile
    /\ last.op \in {"openSync", "createWriteStream", "chmod"}
    /\ before[last.p] = FileEnt(UserBytes, MODE_644)
    /\ realFS[last.p] # before[last.p]
    /\ BlobAt(realFS, last.p) = BlobBytes

\* ---- the installer's claims
\* what Installer.prepare and checkLock make of the persisted seal: it is
\* there and the integrity of the lockfile in use checks against it
checkLockVerifies(fs) ==
    LET lock == readJson(fs.lock, TRUE)
        shrink == readJson(fs.shrink, TRUE)
        lockHash == readJson(fs.seal, TRUE)
        shrinkwrap == IF shrink.out = "ok" THEN shrink.v ELSE lock.v
    IN /\ "throw" \notin {lock.out, shrink.out, lockHash.out}
       /\ lockHash.out = "ok"
       /\ shrinkwrap # ""
       /\ ssri_checkData(JSON_stringify(shrinkwrap), lockfile_integrity(lockHash.v))

\* the seal writeLockHash wrote last is the persisted one, no run is going on
SealIntact ==
    /\ inst.pc = "idle"
    /\ hist.sealed # NoSeal
    /\ pfiles.seal = hist.sealed.text

\* the file that supplied the sealed lockfile supplies the lockfile still
SameSupplier == hist.sealed.src = "lock" => pfiles.shrink = Absent

\* C16: the seal writeLockHash wrote for lockfile l verifies against l, in
\* prepare's checkPkgLock and in Installer.checkLock, whichever of
\* npm-shrinkwrap.json and package-lock.json supplied l; once the bytes of
\* that lockfile have changed the seal verifies in neither.
C16_SealRoundTrip ==
    (SealIntact /\ SameSupplier)
    => IF pfiles[hist.sealed.src] = hist.sealed.bytes
       THEN checkPkgLock(pfiles) /\ checkLockVerifies(pfiles)
       ELSE ~checkPkgLock(pfiles) /\ ~checkLockVerifies(pfiles)

\* C16: a seal written for package-lock.json, the only lockfile, verifies
\* in both checks while the file is as it was
C16_Witness ==
    /\ SealIntact
    /\ hist.sealed.src = "lock" /\ pfiles.shrink = Absent
    /\ pfiles.lock = hist.sealed.bytes
    /\ checkPkgLock(pfiles) /\ checkLockVerifies(pfiles)

\* a run of the installer has just ended without an error
RunEnded == hist.run.status = "ok"

\* C17: Installer.run executes the map-generation stages exactly when force
\* is set or the persisted seal is absent or does not verify against the
\* lockfile; with a seal that verifies and no force it executes none of them.
C17_RebuildIffInvalid ==
    RunEnded
    => IF hist.run.force \/ hist.run.sealAbsent \/ ~hist.run.verified
       THEN hist.run.stages = MapStages
       ELSE hist.run.stages = {}

\* C17: a run that found no persisted seal went through every stage
C17_Witness ==
    /\ RunEnded
    /\ hist.run.sealAbsent /\ ~hist.run.force
    /\ hist.run.stages = MapStages

\* the prepare command has just made its choice; the files are as it saw them
PrepareChose == hist.cmd.name = "prepare"

\* the seal check fails: package-lock.json or the persisted seal is missing
\* or does not parse, or lockfile_integrity does not match the lockfile
SealCheckFails(fs) ==
    LET lock == readJson(fs.lock, FALSE)
        map == readJson(fs.seal, FALSE)
    IN \/ lock.out # "ok"
       \/ map.out # "ok"
       \/ ~ssri_checkData(JSON_stringify(lock.v), lockfile_integrity(map.v))

\* the seal the installer persisted for package-lock.json is in place and
\* the bytes of package-lock.json are no longer the ones it was written for
LockfileChangedSinceSeal ==
    /\ hist.sealed.src = "lock"
    /\ pfiles.seal = hist.sealed.text
    /\ pfiles.lock # hist.sealed.bytes

\* the seal the installer persisted is in place and package-lock.json is
\* missing, does not parse, or parses to another object than the sealed one
LockObjectChangedSinceSeal ==
    /\ hist.sealed # NoSeal
    /\ pfiles.seal = hist.sealed.text
    /\ LET lock == readJson(pfiles.lock, FALSE) IN
       lock.out # "ok" \/ lock.v # hist.sealed.obj

Fetched == "fetchTree" \in inst.stages

\* what the claim asks of a dependency for extract to be called on it
NeedsExtract(n) ==
    /\ n # Root
    /\ ~tree[n].directory
    /\ ~tree[n].bundled
    /\ checkDepEnv(tree[n], inst.opts)
    /\ tree[n].scripts

\* C19: during fetchTree extract is called for a dependency if and only if
\* it is not the root, not a directory-spec dependency, not bundled, passes
\* checkDepEnv, and its package.json declares an install script or bundled
\* dependencies.
C19_ExtractOnlyWhereNeeded ==
    Fetched => \A n \in Nodes : n \in walk.extracted <=> NeedsExtract(n)

\* C19: a tree where a is extracted for its scripts
C19_Witness ==
    /\ Fetched
    /\ NeedsExtract("a") /\ "a" \in walk.extracted
    /\ "b" \in walk.visited

InSeq(seq, x) == \E i \in 1..Len(seq) : seq[i] = x
Pos(seq, x) == CHOOSE i \in 1..Len(seq) : seq[i] = x
Before(seq, x, y) == InSeq(seq, x) /\ InSeq(seq, y) /\ Pos(seq, x) < Pos(seq, y)

\* in fetchTree a dependency is processed after its parent
FetchParentsFirst ==
    \A d \in Deps : InSeq(walk.order, d) => Before(walk.order, ParentOf[d], d)

\* C20 as stated: in fetchTree and in updateJson a package's own processing
\* completes before the processing of any of its children begins.
C20_ParentsBeforeChildren ==
    /\ FetchParentsFirst
    /\ \A d \in Deps : InSeq(walk.jorder, d) => Before(walk.jorder, ParentOf[d], d)

\* C20: in fetchTree a package's own processing completes before the
\* processing of any of its children begins; in updateJson a package's
\* package.json is read and updated after the walk of each of its children
\* has ended, so after the processing of every child that is processed.
C20_WalkOrder ==
    /\ FetchParentsFirst
    /\ \A n \in Nodes :
          InSeq(walk.jorder, n)
          => \A d \in Children(n) :
                /\ d \in walk.settled
                /\ InSeq(walk.jorder, d) => Before(walk.jorder, d, n)

\* C20: both walks went through a and b: a before b in fetchTree, b before
\* a in updateJson
C20_Witness ==
    /\ Before(walk.order, "a", "b")
    /\ Before(walk.jorder, "b", "a")

\* ------------------------------------------- overrideNode called twice
\* the deliveries of each part, in order
RECURSIVE Flatten(_)
Flatten(parts) == IF parts = <<>> THEN <<>> ELSE Head(parts) \o Flatten(Tail(parts))

\* patchFn on a patched primitive: handler(fs[name]) captures the wrapper of
\* the first call as its original. What the wrapper of the second call does:
\* the same handler code, its captured original the first wrapper, and fs.X
\* inside a handler the wrapper of the second call.
RECURSIVE overrideNodeTwice(_, _, _, _, _, _)
RECURSIVE OpenAfterChmodTwice(_, _, _, _, _)
RECURSIVE OpenCallbackTwice(_, _, _, _, _)

\* the callback the second open wrapper hands to fs.chmod
OpenAfterChmodTwice(F, M, ds, p, flags) ==
    IF ds = <<>> THEN Did(F, <<>>)
    ELSE IF Head(ds).out = "err"
         THEN LET rest == OpenAfterChmodTwice(F, M, Tail(ds), p, flags) IN
              Did(rest.fs, <<Dlv("cb", AsResult(Head(ds)))>> \o rest.dl)
    ELSE LET o == open(F, M, p, flags)
             rest == OpenAfterChmodTwice(o.fs, M, Tail(ds), p, flags)
         IN Did(rest.fs, o.dl \o rest.dl)

\* the callback the second open wrapper hands to the first, run once for
\* each time the first calls back
OpenCallbackTwice(F, M, ds, p, flags) ==
    IF ds = <<>> THEN Did(F, <<>>)
    ELSE LET d == Head(ds)
             resolved == resolve(M, p)
             now ==
                 IF d.out = "ok" \/ d.code # "ENOENT" THEN Did(F, <<d>>)
                 ELSE IF Falsy(resolved) THEN Did(F, <<notFoundError(TRUE)>>)
                 ELSE IF IsDir(resolved) THEN Did(F, <<isDirError(TRUE)>>)
                 ELSE IF pkglock_stat(F, resolved, TRUE).out = "null"
                      THEN Did(F, <<Dlv("cb", Err("ENOENT"))>>)
                 ELSE IF flags = "r" THEN open(F, M, CachePath(resolved.digest), flags)
                 ELSE LET cp == HostCopyFile(F, CachePath(resolved.digest), p) IN
                      IF cp.ret.out = "err" THEN Did(cp.fs, <<Dlv("cb", cp.ret)>>)
                      ELSE LET ch == overrideNodeTwice("chmod", cp.fs, M, p, "", MODE_755) IN
                           OpenAfterChmodTwice(ch.fs, M, ch.dl, p, flags)
             rest == OpenCallbackTwice(now.fs, M, Tail(ds), p, flags)
         IN Did(rest.fs, now.dl \o rest.dl)

overrideNodeTwice(op, F, M, p, flags, mode) ==
    LET resolved == resolve(M, p)
        cachePath == CachePath(resolved.digest)
        \* the stat family's callback and catch block
        FromMap(via) ==
            IF Falsy(resolved) THEN <<notFoundError(via = "cb")>>
            ELSE LET st == pkglock_stat(F, resolved, FALSE) IN
                 IF st.out # "null" THEN <<Dlv(via, st)>>
                 ELSE IF via = "cb" THEN <<Dlv("cb", Ok(Undefined)), notFoundError(TRUE)>>
                 ELSE <<notFoundError(FALSE)>>
        ResolvedPath(via) ==
            IF Falsy(resolved) THEN <<notFoundError(via = "cb")>>
            ELSE <<Dlv(via, Ok(PathVal(resolved.resolvedPath)))>>
        Merge(d, via) ==
            IF d.out = "err" /\ d.code # "ENOENT" THEN <<d>>
            ELSE LET found == d.out = "ok"
                     files == IF found THEN d.val.names ELSE <<>>
                 IN IF ~Falsy(resolved) /\ IsDir(resolved)
                    THEN <<Dlv(via, Ok(Names(Dedupe(files \o resolved.dir))))>>
                    ELSE IF ~found THEN <<notFoundError(via = "cb")>>
                    ELSE IF ~Falsy(resolved) /\ ~IsDir(resolved) THEN <<notDirError(via = "cb")>>
                    ELSE <<Dlv(via, Ok(Names(Dedupe(files))))>>
        Each(ds, Cb(_)) == Flatten([i \in 1..Len(ds) |-> Cb(ds[i])])
    IN
    CASE op \in {"lstatSync", "statSync"} ->
            LET h == IF op = "lstatSync" THEN lstatSync(F, M, p) ELSE statSync(F, M, p) IN
            IF h.dl[1].via = "return" \/ h.dl[1].code # "ENOENT" THEN h
            ELSE Did(h.fs, FromMap("return"))
      [] op \in {"lstat", "stat"} ->
            LET h == IF op = "lstat" THEN lstat(F, M, p) ELSE stat(F, M, p) IN
            Did(h.fs, Each(h.dl, LAMBDA d : IF d.out # "err" THEN <<d>> ELSE FromMap("cb")))
      [] op = "statSyncNoException" ->
            LET h == statSyncNoException(F, M, p) IN
            IF h.dl[1].out = "ok" THEN h
            ELSE IF Falsy(resolved) THEN Did(h.fs, <<Dlv("return", Null)>>)
            ELSE Did(h.fs, <<Dlv("return", pkglock_stat(F, resolved, FALSE))>>)
      [] op = "realpathSync" ->
            LET h == realpathSync(F, M, p) IN
            IF h.dl[1].via = "return" \/ h.dl[1].code # "ENOENT" THEN h
            ELSE Did(h.fs, ResolvedPath("return"))
      [] op = "realpath" ->
            LET h == realpath(F, M, p) IN
            Did(h.fs, Each(h.dl, LAMBDA d : IF d.out = "ok" \/ d.code # "ENOENT" THEN <<d>>
                                            ELSE ResolvedPath("cb")))
      [] op = "exists" ->
            IF IsNull(resolved) THEN exists(F, M, p)
            ELSE Did(F, <<Dlv("cb", Ok([pos |-> 2, value |-> ~Falsy(resolved)]))>>)
      [] op = "existsPromise" ->
            IF IsNull(resolved) THEN existsPromise(F, M, p)
            ELSE Did(F, <<Dlv("resolve", Ok(Bool(~Falsy(resolved))))>>)
      [] op = "existsSync" ->
            IF IsNull(resolved) THEN existsSync(F, M, p)
            ELSE Did(F, <<Dlv("return", Ok(Bool(~Falsy(resolved))))>>)
      [] op = "access" ->
            IF IsNull(resolved) THEN access(F, M, p, mode)
            ELSE IF Falsy(resolved) THEN Did(F, <<notFoundError(TRUE)>>)
            ELSE IF IsDir(resolved)
                 THEN IF DirAccessGranted(mode) THEN Did(F, <<Dlv("cb", Ok(Undefined))>>)
                      ELSE Did(F, <<accessError(TRUE)>>)
            ELSE IF pkglock_stat(F, resolved, FALSE).out = "null"
                 THEN Did(F, <<notFoundError(TRUE)>>)
            ELSE access(F, M, cachePath, mode)
      [] op = "accessSync" ->
            IF IsNull(resolved) THEN accessSync(F, M, p, mode)
            ELSE IF Falsy(resolved) THEN Did(F, <<notFoundError(FALSE)>>)
            ELSE IF IsDir(resolved)
                 THEN IF DirAccessGranted(mode) THEN Did(F, <<Dlv("return", Ok(Undefined))>>)
                      ELSE Did(F, <<accessError(FALSE)>>)
            ELSE IF pkglock_stat(F, resolved, FALSE).out = "null"
                 THEN Did(F, <<notFoundError(FALSE)>>)
            ELSE overrideNodeTwice("accessSync", F, M, cachePath, flags, mode)
      [] op = "readFile" ->
            IF IsNull(resolved) THEN readFile(F, M, p)
            ELSE IF IsDir(resolved) THEN Did(F, <<isDirError(TRUE)>>)
            ELSE IF Falsy(resolved) THEN Did(F, <<notFoundError(TRUE)>>)
            ELSE Did(F, <<Dlv("cb", pkglock_read(F, resolved))>>)
      [] op = "readFileSync" ->
            IF IsNull(resolved) THEN readFileSync(F, M, p)
            ELSE IF IsDir(resolved) THEN Did(F, <<isDirError(FALSE)>>)
            ELSE IF Falsy(resolved) THEN Did(F, <<notFoundError(FALSE)>>)
            ELSE Did(F, <<SyncDlv(pkglock_read(F, resolved))>>)
      [] op = "readdir" ->
            LET h == readdir(F, M, p) IN Did(h.fs, Each(h.dl, LAMBDA d : Merge(d, "cb")))
      [] op = "readdirSync" ->
            LET h == readdirSync(F, M, p) IN Did(h.fs, Merge(h.dl[1], "return"))
      [] op = "chmod" ->
            IF IsNull(resolved) THEN chmod(F, M, p, mode)
            ELSE IF Falsy(resolved) THEN Did(F, <<notFoundError(FALSE)>>)
            ELSE IF IsDir(resolved)
                 THEN LET mk == HostMkdirp(F, p, mode) IN Did(mk.fs, <<Dlv("cb", mk.ret)>>)
            ELSE LET mk == HostMkdirp(F, Parent(p), 511)
                     rd == overrideNodeTwice("readFile", mk.fs, M, p, "", 0).dl[1]
                     wf == HostWriteFile(mk.fs, p,
                              IF rd.out = "ok" THEN rd.val.bytes ELSE UndefinedBytes, mode)
                 IN Did(wf.fs,
                        (IF mk.ret.out = "err" THEN <<Dlv("cb", mk.ret)>> ELSE <<>>)
                        \o (IF rd.out = "err" THEN <<Dlv("cb", AsResult(rd))>> ELSE <<>>)
                        \o <<Dlv("cb", wf.ret)>>)
      [] op = "open" ->
            LET h == open(F, M, p, flags) IN OpenCallbackTwice(h.fs, M, h.dl, p, flags)
      [] op = "openSync" ->
            IF IsNull(resolved) THEN openSync(F, M, p, flags)
            ELSE IF Falsy(resolved) THEN Did(F, <<notFoundError(FALSE)>>)
            ELSE IF IsDir(resolved) THEN Did(F, <<isDirError(FALSE)>>)
            ELSE IF pkglock_stat(F, resolved, TRUE).out = "null"
                 THEN Did(F, <<notFoundError(FALSE)>>)
            ELSE IF flags = "r" THEN openSync(F, M, cachePath, flags)
            ELSE LET mt == Materialise(F, resolved, p) IN
                 IF mt.ret.out = "err" THEN Did(mt.fs, <<Dlv("throw", mt.ret)>>)
                 ELSE openSync(mt.fs, M, p, flags)
      [] op \in {"createReadStream", "createWriteStream"} ->
            LET Orig(G, q) == IF op = "createReadStream" THEN createReadStream(G, M, q, flags)
                              ELSE createWriteStream(G, M, q, flags)
            IN IF Falsy(resolved) \/ IsDir(resolved) THEN Orig(F, p)
               ELSE IF pkglock_stat(F, resolved, TRUE).out = "null" THEN Orig(F, p)
               ELSE IF op = "createReadStream" /\ flags = "r" THEN Orig(F, cachePath)
               ELSE LET mt == Materialise(F, resolved, p) IN
                    IF mt.ret.out = "err" THEN Did(mt.fs, <<Dlv("throw", mt.ret)>>)
                    ELSE Orig(mt.fs, p)
      [] op = "internalModuleReadJSON" ->
            IF IsNull(resolved) THEN internalModuleReadJSON(F, M, p)
            ELSE IF Falsy(resolved) \/ IsDir(resolved) THEN Did(F, <<Dlv("return", Ok(Undefined))>>)
            ELSE LET data == pkglock_read(F, resolved) IN
                 Did(F, <<Dlv("return", IF data.out = "ok" THEN data ELSE Ok(Undefined))>>)
      [] op = "internalModuleStat" ->
            IF IsNull(resolved) THEN internalModuleStat(F, M, p)
            ELSE IF ~Falsy(resolved) /\ IsFile(resolved) THEN Did(F, <<Dlv("return", Ok(Num(0)))>>)
            ELSE IF ~Falsy(resolved) /\ IsDir(resolved) THEN Did(F, <<Dlv("return", Ok(Num(1)))>>)
            ELSE IF Falsy(resolved) /\ Basename(p) = NM THEN Did(F, <<Dlv("return", Ok(Num(1)))>>)
            ELSE Did(F, <<Dlv("return", Ok(Num(-34)))>>)
      [] op = "dlopen" ->
            IF IsNull(resolved) THEN overrideAPISync(F, M, p)
            ELSE IF IsDir(resolved) THEN Did(F, <<isDirError(FALSE)>>)
            ELSE IF Falsy(resolved) THEN Did(F, <<notFoundError(FALSE)>>)
            ELSE IF pkglock_stat(F, resolved, TRUE).out = "null"
                 THEN Did(F, <<notFoundError(FALSE)>>)
            ELSE overrideAPISync(F, M, cachePath)

\* what the overlay installed twice does on the call in last
TwiceOnLast == overrideNodeTwice(last.op, before, pkgmap, last.p, last.flags, last.mode)

\* C21: calling overrideNode twice yields, for every intercepted primitive,
\* every path and every resolver outcome, the same result, error and
\* real-filesystem effect as calling it once.
C21_InstallIdempotent ==
    Called => (SameDeliveries(TwiceOnLast.dl, last.dl) /\ TwiceOnLast.fs = realFS)

\* C21: openSync with 'r+' on a map file with no real file: the second
\* wrapper copies the blob and calls the first, which copies it again
C21_Witness ==
    /\ OnStoredFile
    /\ last.op = "openSync"
    /\ last.flags = "r+"
    /\ before[last.p].kind = "none"
    /\ Succeeded
    /\ realFS[last.p] = FileEnt(BlobBytes, MODE_755)
    /\ TwiceOnLast.fs = realFS

\* ---- the claims on the walks of a shell's installer
\* production is set and none of dev, development, only=dev(elopment) and
\* also=dev(elopment)
ProductionOnly(opts) ==
    /\ opts.production
    /\ ~opts.dev /\ ~opts.development
    /\ ~IsDevOnly(opts.only) /\ ~IsDevOnly(opts.also)

\* a run is in progress and its tree is built
Walking == inst.pc \notin {"idle", "prepare"}

NonDev == {d \in Deps : ~tree[d].dev}
\* the dependencies a walk's callback went past checkDepEnv on
FetchProcessed == Range(walk.order) \ {Root}
JsonProcessed == (walk.entered \ {Root}) \ {d \in Deps : d \in walk.settled /\ ~InSeq(walk.jorder, d)}
BuildProcessed == (walk.bnexted \cup walk.raised) \ {Root}

\* with production alone, checkDepEnv passes the dependencies that are not
\* marked dev and no other; the three walks process those, skip the others
\* and do not descend below them
ProductionWalks ==
    (Walking /\ ProductionOnly(inst.opts))
    => /\ \A d \in Deps : checkDepEnv(tree[d], inst.opts) <=> ~tree[d].dev
       /\ FetchProcessed \subseteq NonDev
       /\ JsonProcessed \subseteq NonDev
       /\ BuildProcessed \subseteq NonDev
       /\ \A d \in Deps \ NonDev :
             Children(d) \cap (walk.visited \cup walk.entered \cup walk.bentered) = {}
       /\ "fetchTree" \in inst.stages => FetchProcessed = NonDev
       /\ "updateJson" \in inst.stages => JsonProcessed = NonDev
       /\ ("buildTree" \in inst.stages /\ walk.raised = {}) => BuildProcessed = NonDev

\* C22: when production is set and none of dev, development,
\* only=dev(elopment), also=dev(elopment) is set, checkDepEnv is false for
\* every dependency marked dev and true for every other, so fetchTree,
\* updateJson and buildTree skip every dev dependency (and do not descend
\* into its children) and process every non-dev dependency; a shell/prepare
\* invocation given the production option downloads no devDependencies.
C22_ProductionFilter ==
    /\ ProductionWalks
    /\ (Walking /\ inst.argv.production) => walk.fetched \subseteq NonDev

\* C22: a shell given production, its installer configured with production:
\* the dev dependencies a and b were skipped by the three walks
C22_Witness ==
    /\ inst.argv.production
    /\ ProductionOnly(inst.opts)
    /\ tree["a"].dev
    /\ "buildTree" \in inst.stages
    /\ walk.visited = {Root, "a"}
    /\ walk.fetched = {}
    /\ BuildProcessed = {}

\* the stages of a map-generating run, in the order run awaits them
StageOrder ==
    <<"fetchTree", "updateJson", "buildTree", "tinkifyBins", "runScript prepublish",
      "runScript prepare", "writeLockHash">>
BeforeSeal == Range(StageOrder) \ {"writeLockHash"}

\* the stages in done are the first of the order, none left out
InOrder(done) == \E k \in 0..Len(StageOrder) : done = {StageOrder[i] : i \in 1..k}

\* C23: in Installer.run, writeLockHash runs only after fetchTree,
\* updateJson, buildTree, tinkifyBins and the root prepublish and prepare
\* scripts have all completed without error, in that order; if any of those
\* stages rejects, .pkglock-hash is not written during that run and run
\* rejects.
C23_SealWrittenLast ==
    /\ InOrder(inst.stages)
    /\ inst.pc = "writeLockHash" => inst.stages = BeforeSeal
    /\ pfiles.seal # Absent => hist.sealed # NoSeal /\ pfiles.seal = hist.sealed.text
    /\ hist.run.status = "error"
       => /\ InOrder(hist.run.stages)
          /\ "writeLockHash" \notin hist.run.stages
          /\ hist.run.rejected \in BeforeSeal \cup {"prepare"}
          /\ hist.run.rejected \notin hist.run.stages
          /\ pfiles.seal = Absent
    /\ hist.run.status = "ok" /\ hist.run.stages # {}
       => hist.run.stages = Range(StageOrder) /\ pfiles.seal = hist.sealed.text

\* C23: a run whose last stage before the seal, the root's prepare script,
\* rejected: run rejected and no seal was written
C23_Witness ==
    /\ hist.run.status = "error"
    /\ hist.run.rejected = "runScript prepare"
    /\ hist.run.stages = BeforeSeal \ {"runScript prepare"}
    /\ pfiles.seal = Absent

\* the lifecycle step of a package has completed; one completed before another
Ran(n, step) == InSeq(walk.events, <<n, step>>)
RanBefore(n, s1, m, s2) == Ran(m, s2) => Before(walk.events, <<n, s1>>, <<m, s2>>)
LifecycleSteps == {"preinstall", "binLink", "install", "postinstall"}

\* C24: in buildTree, for every non-root dependency that passes checkDepEnv,
\* its preinstall script finishes before the build of any of its children
\* starts, the builds of all its children finish before its bins are
\* linked, and bin linking precedes its install script, which precedes its
\* postinstall script.
C24_LifecycleOrder ==
    \A d \in Deps :
        /\ \A c \in Children(d) :
              /\ c \in walk.bentered => Ran(d, "preinstall")
              /\ \A s \in LifecycleSteps : RanBefore(d, "preinstall", c, s)
              /\ Ran(d, "binLink")
                 => /\ c \in walk.bsettled
                    /\ \A s \in LifecycleSteps : Ran(c, s) => Before(walk.events, <<c, s>>, <<d, "binLink">>)
        /\ RanBefore(d, "preinstall", d, "binLink")
        /\ RanBefore(d, "binLink", d, "install")
        /\ RanBefore(d, "install", d, "postinstall")

\* C24: a and its child b were both built through postinstall
C24_Witness ==
    /\ Ran("a", "postinstall")
    /\ Ran("b", "postinstall")
    /\ Before(walk.events, <<"a", "preinstall">>, <<"b", "preinstall">>)
    /\ Before(walk.events, <<"b", "postinstall">>, <<"a", "binLink">>)

\* an error reached the catch block of n: a step of its own threw, or next()
\* rejected with the error of a child
Caught(n) == n \in walk.raised \/ Children(n) \cap walk.rejected # {}

\* n or a package above it on the walk is optional
RECURSIVE OptionalAbove(_)
OptionalAbove(n) ==
    IF n = Root THEN FALSE ELSE tree[n].optional \/ OptionalAbove(ParentOf[n])

\* buildTree has settled: it resolved, or the root's callback rejected
BuildResolved == "buildTree" \in inst.stages
BuildRejected == inst.pc = "buildTree" /\ Root \in walk.rejected

\* C25 as stated: an error raised while building a dependency in buildTree is
\* swallowed and the dependency added to failedDeps if and only if that
\* dependency is optional; an error raised while building a non-optional
\* dependency makes buildTree (and run) reject; failedDeps never contains a
\* non-optional dependency.
C25_OptionalContainedAsStated ==
    /\ \A n \in walk.raised : n \in walk.failedDeps <=> tree[n].optional
    /\ BuildResolved => \A n \in walk.raised : tree[n].optional
    /\ \A n \in walk.failedDeps : tree[n].optional

\* C25: an error raised while building a dependency (in a step of its own,
\* or in the build of a child, which next() passes on) is swallowed by the
\* dependency's callback, and the dependency added to failedDeps, if and
\* only if the dependency is optional, else it is thrown on to the callback
\* of its parent; so the error makes buildTree (and run) reject if and only
\* if neither the dependency it was raised in nor a package above it is
\* optional; failedDeps never contains a non-optional dependency.
C25_OptionalContained ==
    /\ \A n \in walk.bsettled :
          /\ n \in walk.failedDeps <=> (Caught(n) /\ tree[n].optional)
          /\ n \in walk.rejected <=> (Caught(n) /\ ~tree[n].optional)
    /\ walk.failedDeps \cup walk.rejected \subseteq walk.bsettled
    /\ BuildResolved => \A n \in walk.raised : OptionalAbove(n)
    /\ BuildRejected => \E n \in walk.raised : ~OptionalAbove(n)
    /\ \A n \in walk.failedDeps : tree[n].optional

\* C25: the preinstall script of b, not optional, broke below the optional
\* a: a is in failedDeps and buildTree resolved
C25_Witness ==
    /\ BuildResolved
    /\ walk.raised = {"b"}
    /\ ~tree["b"].optional
    /\ tree["a"].optional
    /\ walk.rejected = {"b"}
    /\ walk.failedDeps = {"a"}

\* ------------------------------------------------------------------
\* updateInstallScript on the package.json of one dependency

\* node x.js, make, node, nodemon, node-gyp rebuild, node;node, xnode a
ScriptTexts ==
    {<<"n", "o", "d", "e", " ", "x", ".", "j", "s">>,
     <<"m", "a", "k", "e">>,
     <<"n", "o", "d", "e">>,
     <<"n", "o", "d", "e", "m", "o", "n">>,
     GypRebuild,
     <<"n", "o", "d", "e", ";", "n", "o", "d", "e">>,
     <<"x", "n", "o", "d", "e", " ", "a">>}

\* the package.json files of a dependency: without scripts, or with any of
\* the three scripts
PkgScripts ==
    {NoScripts} \cup
    {[has |-> TRUE, preinstall |-> pre, install |-> ins, postinstall |-> post] :
        pre \in {<<>>, <<"n", "o", "d", "e", " ", "x", ".", "j", "s">>, <<"m", "a", "k", "e">>},
        ins \in ScriptTexts \cup {<<>>},
        post \in {<<>>, <<"n", "o", "d", "e">>, <<"m", "a", "k", "e">>}}

\* the callback of updateJson on a dependency: readJson of its package.json,
\* then updateInstallScript
updateJson_script ==
    /\ LET r == updateInstallScript(pkgjson.disk, pkgjson.gyp)
       IN  pkgjson' = [pkgjson EXCEPT !.called = TRUE,
                                      !.read = pkgjson.disk,
                                      !.pkg = r.pkg,
                                      !.wrote = r.write,
                                      !.disk = IF r.write THEN r.pkg ELSE @]
    /\ UNCHANGED <<ovars, ivars>>

InitScripts ==
    /\ realFS = [q \in AllPaths |->
                    IF q \in {Prefix, DepRoot, CacheRoot} THEN DirEnt(MODE_755) ELSE None]
    /\ pkgmap = TheMap
    /\ nenv = 0
    /\ before = realFS
    /\ last = NoCall
    /\ InstallerAtRest
    /\ \E disk \in PkgScripts, gyp \in BOOLEAN :
          pkgjson = [NoPkgJson EXCEPT !.disk = disk, !.gyp = gyp]

NextScripts == updateJson_script

SpecScripts == InitScripts /\ [][NextScripts]_vars

\* a script of the package given to the last call that the replacement changes
ScriptChanged(p) ==
    \E s \in {p.preinstall, p.install, p.postinstall} : Tish(s) # s

\* C26: updateInstallScript rewrites a dependency's package.json on disk if
\* and only if at least one of its preinstall, install or postinstall
\* scripts was actually changed by the node-to-tish replacement; when no
\* script text changed, package.json is not written.
C26_WriteIffChanged ==
    pkgjson.called =>
        (pkgjson.wrote <=> ScriptChanged(WithGyp(pkgjson.read, pkgjson.gyp)))

\* C26: a package whose only script, install, is "node x.js": the call
\* returned it as "tish x.js" and did not write package.json
C26_Witness ==
    /\ pkgjson.called
    /\ pkgjson.read = [NoScripts EXCEPT !.has = TRUE,
                          !.install = <<"n", "o", "d", "e", " ", "x", ".", "j", "s">>]
    /\ pkgjson.pkg.install = <<"t", "i", "s", "h", " ", "x", ".", "j", "s">>
    /\ ~pkgjson.wrote
    /\ pkgjson.disk = pkgjson.read

\* the deliveries of the last call that went through the caller's callback
Callbacks == SelectSeq(last.dl, LAMBDA d : d.via = "cb")

\* C27: every callback-style overlay primitive invokes the caller's callback
\* exactly once per call, whatever the real filesystem, the resolver and the
\* stat service answer (mkdirp or readFile failing inside chmod included).
C27_CallbackOnce ==
    (Called /\ last.op \in AsyncPrimitives) => Len(Callbacks) = 1

\* C27: chmod on a File path whose blob is not in the cache: readFile fails
\* and its error is called back, then writeFile goes on and calls back again
C27_Witness ==
    /\ Called
    /\ last.op = "chmod"
    /\ last.res = "file"
    /\ Len(Callbacks) = 2
    /\ Callbacks[1].out = "err"
    /\ Callbacks[2].out = "ok"
    /\ realFS[last.p].kind = "file"
    /\ realFS[last.p].data = UndefinedBytes

\* what the three primitives answer on p in the current state
ExistsSyncTrue(p) == existsSync(realFS, pkgmap, p).dl[1].val = Bool(TRUE)
StatSyncSucceeds(p) == statSync(realFS, pkgmap, p).dl[1].via = "return"
AccessSyncSucceeds(p) == accessSync(realFS, pkgmap, p, F_OK).dl[1].via = "return"

\* C28: in every reachable state and for every path, existsSync(p) returns
\* true if and only if statSync(p) succeeds, and accessSync(p, F_OK) succeeds
\* if and only if statSync(p) succeeds; a real file created at a path the
\* resolver classifies as Missing is reported the same way by all three.
C28_ExistenceConsistent ==
    \A p \in CallPaths :
        /\ ExistsSyncTrue(p) <=> StatSyncSucceeds(p)
        /\ AccessSyncSucceeds(p) <=> StatSyncSucceeds(p)

\* C28: a real file was written at a path missing from the map; statSync on
\* it returned the real file's stats, existsSync answers false and accessSync
\* throws
C28_Witness ==
    /\ Called
    /\ last.op = "statSync"
    /\ last.p = P_m
    /\ last.res = "missing"
    /\ Got.via = "return"
    /\ realFS[P_m] = FileEnt(UserBytes, MODE_644)
    /\ ~ExistsSyncTrue(P_m)
    /\ ~AccessSyncSucceeds(P_m)

\* the last call is one of those that work on the real path of a map file
\* without truncating it
NonTruncatingCall ==
    \/ last.op = "openSync" /\ last.flags \in {"r+", "a"}
    \/ last.op = "createReadStream"
    \/ last.op = "createWriteStream" /\ last.flags = "a"
    \/ last.op = "chmod"

\* C29: if a real file already exists at a path with a File resolution, a
\* later openSync with non-truncating write flags ('r+', 'a'),
\* createReadStream, createWriteStream with append flags, or chmod on that
\* path does not replace the real file's content with the blob's bytes; the
\* blob is copied only when no real file exists at the path.
C29_NoClobber ==
    (/\ Called
     /\ last.res = "file"
     /\ before[last.p].kind = "file"
     /\ NonTruncatingCall)
    => realFS[last.p].data = before[last.p].data

\* C29: openSync with 'r+' on a map file where a user's file is: the call
\* succeeds and the file now holds the blob's bytes
C29_Witness ==
    /\ OnStoredFile
    /\ last.op = "openSync"
    /\ last.flags = "r+"
    /\ before[last.p].kind = "file"
    /\ before[last.p].data = UserBytes
    /\ Succeeded
    /\ realFS[last.p].data = BlobBytes
    /\ UserBytes # BlobBytes

====
